---- MODULE Spec2Model ----
(***************************************************************************)
(* Model of the extend-ai-document-processor plugin: the categorisation    *)
(* driver with its bounded retry (categorize.py), the protocol entry point *)
(* (protocols/document_processor.py), the greedy field-extraction loop     *)
(* (prefill/extraction.py) and the template scorer (prefill/scoring.py).   *)
(*                                                                         *)
(* Three specifications share the module:                                  *)
(*   SpecRun     - one DocumentProcessor.compute run, _call_api unrolled   *)
(*                 attempt by attempt;                                     *)
(*   SpecExtract - extract_fields_for_templates, one loop iteration per    *)
(*                 step;                                                   *)
(*   SpecScore   - score_templates applied to a bounded data store.        *)
(* Scores are exact rationals [num, den]; thresholds are in hundredths.    *)
(***************************************************************************)
EXTENDS Integers, Sequences, FiniteSets, TLC

\* Python's None, one per type of value it stands in for
None == "None"
NoneRec == [none |-> TRUE]
NoneInt == 0 - 1

\* ---------------------------------------------------------------- constants.py
MAX_RETRIES == 2
\* SCORE_THRESHOLD = 0.3 and GAP_FILL_THRESHOLD = 0.05, in hundredths
SCORE_THRESHOLD == 30
GAP_FILL_THRESHOLD == 5
\* KEYWORD_BONUS = 0.05, in hundredths
KEYWORD_BONUS == 5
COLOR_CONFIDENCE == "#00AA00"
COLOR_ERROR == "#F44336"
COLOR_AUTO_ASSIGNED == "#9C27B0"

VARIABLES
    \* --- DocumentProcessor.compute / categorize_document / _call_api
    pc,          \* position of the run
    doc,         \* event.context["document"]: [id, content_url]
    secrets,     \* [api_key, processor_id]
    attempt,     \* loop variable of _call_api
    posts,       \* outcomes of the http.post calls issued so far, in order
    sleeps,      \* arguments of the time.sleep calls made so far, in order
    response,    \* what _call_api returned (None, or a response)
    result,      \* the CategorizationResult
    matches,     \* [patient_match, reviewer_match] once computed
    effects,     \* what compute returned
    abort,       \* which early "return []" ended the run ("none" if none did)
    \* --- extract_fields_for_templates
    xpc,           \* "idle", "loop", "done"
    candidates,    \* ranked candidates [id, score, codes]
    extracted_codes, \* the target codes
    idx,           \* index of the next candidate of the for loop
    matched_codes, \* codes of the accepted templates
    templates,     \* accepted templates, in order
    trace,         \* per examined candidate: [id, outcome, covered, accepted]
    api_calls,     \* ids of the candidates extract_with_schema was called for
    \* --- score_templates
    spc,           \* "idle", "store", "scored"
    store,         \* the template-field table: <<template id, code>> -> number of fields
    call,          \* the score_templates call: its arguments and intermediate sums
    scored,        \* the list score_templates returned
    \* --- find_patient / find_reviewer
    mpc,           \* "idle", "store", "matched"
    patients,      \* the Patient table
    staff,         \* the Staff table, in primary-key order
    doc_extraction, \* the DocumentExtraction handed to the lookup
    queries,       \* the data-store queries issued so far: [tier, hits]
    patient_match, \* the PatientMatch returned
    reviewer_match, \* the ReviewerMatch returned
    \* --- _to_list / extract_codes
    tpc,           \* "idle", "build", "listed", "extracted"
    raw_value,     \* the raw code-list value
    flat,          \* _to_list(raw)
    reflat,        \* _to_list(_to_list(raw))
    code_call,      \* the extract_codes call: its arguments and its result
    \* --- _extract_min_confidence / _build_prefill_fields
    kpc, \* "idle", "build", "done"
    metadata, \* the metadata object of the extraction output
    min_confidence, \* what _extract_min_confidence returned
    prefill_call,  \* the _build_prefill_fields call: its arguments and its result
    \* --- a run over a malformed payload
    extraction_raw, \* output["value"] of the categorisation answer
    matched_type, \* slug_to_type.get(doc_slug)
    raised,  \* the exception the run ended with ("none" if none)
    \* --- concurrent runs of compute
    runs, \* per run: its position, inputs and local values
    heap, \* the effects lists, by address
    returned,  \* per run: what compute returned
    \* --- _build_schema
    field_list, \* the fields of a template, in sequence order
    target_codes, \* the target codes
    built_schema,  \* what _build_schema returned: [properties, key_map]
    \* --- ReminderScheduler.execute
    clock, \* the time, in minutes
    reminder_config, \* the stored configuration: [reminders_enabled, reminder_intervals]
    appointments, \* the Appointment table: [id, start_time]
    markers, \* the cr:reminder_sent markers of the cache: [key, expires]
    sent_log, \* the reminders sent so far: [appointment, interval, at, minutes_until, enabled]
    last_run  \* the time of the latest execute run

runVars == <<pc, doc, secrets, attempt, posts, sleeps, response, result, matches, effects, abort>>
extractVars == <<xpc, candidates, extracted_codes, idx, matched_codes, templates, trace, api_calls>>
scoreVars == <<spc, store, call, scored>>
matchVars == <<mpc, patients, staff, doc_extraction, queries, patient_match, reviewer_match>>
codeVars == <<tpc, raw_value, flat, reflat, code_call>>
confVars == <<kpc, metadata, min_confidence, prefill_call>>
payloadVars == <<extraction_raw, matched_type, raised>>
concVars == <<runs, heap, returned>>
schemaVars == <<field_list, target_codes, built_schema>>
remVars == <<clock, reminder_config, appointments, markers, sent_log, last_run>>
vars == <<runVars, extractVars, scoreVars, matchVars, codeVars, confVars, payloadVars, concVars, schemaVars, remVars>>

\* ---------------------------------------------------------------- helpers
Range(s) == {s[i] : i \in 1..Len(s)}

Min(a, b) == IF a <= b THEN a ELSE b

RECURSIVE Gcd(_, _)
Gcd(a, b) == IF b = 0 THEN a ELSE Gcd(b, a % b)

\* the rational n/d in lowest terms (d > 0, n >= 0): equal scores are equal records
Frac(n, d) == LET g == Gcd(n, d) IN [num |-> n \div g, den |-> d \div g]

\* a + b for two rationals
FracAdd(a, b) == Frac(a.num * b.den + b.num * a.den, a.den * b.den)

\* ======================================================================
\* categorize.py / document_processor.py
\* ======================================================================

\* what one http.post can produce: an exception, or a response with a status
Statuses == {200, 400, 404, 499, 500, 503}
PostOutcomes ==
    {[kind |-> "exception", status |-> 0]} \cup [kind : {"response"}, status : Statuses]

\* requests.Response.ok: status below 400
ResponseOk(status) == status < 400

\* the slugs of available_document_types and the types they map to
\* (_build_slug_map); template_type is None for a type without templates
SlugToType ==
    [lab_report |-> [key |-> "lab", name |-> "Lab Report", template_type |-> "LabReportTemplate"],
     referral   |-> [key |-> "ref", name |-> "Referral", template_type |-> None]]

Slugs == {"lab_report", "referral"}

\* document_type values the extraction of a 2xx response can carry
DocSlugs == {"lab_report", "referral", "unlisted", None}

\* aggregate confidence (_extract_min_confidence), in hundredths, or None
Confidences == {NoneInt, 95, 150}

\* the body of a 2xx response, as far as categorize_document reads it
Bodies == [document_type : DocSlugs, confidence : Confidences]

NoBody == [document_type |-> None, confidence |-> NoneInt]

\* _format_error: the message names the status
format_error(resp) ==
    CASE resp.status = 400 -> "Extend.ai: status=400"
      [] resp.status = 404 -> "Extend.ai: status=404"
      [] resp.status = 499 -> "Extend.ai: status=499"
      [] resp.status = 500 -> "Extend.ai: status=500"
      [] resp.status = 503 -> "Extend.ai: status=503"
      [] OTHER -> "Extend.ai: status=?"

\* categorize.py:116 - the statuses _call_api hands back at once
ReturnsAtOnceRetrying4xx(status) == ResponseOk(status)

ReturnsAtOnce(status) == ResponseOk(status) \/ (400 <= status /\ status < 500)

\* categorize.py:107 - range(MAX_RETRIES + 1)
AttemptRangeUnbounded == 0..(MAX_RETRIES + 2)

AttemptRange == 0..MAX_RETRIES

InitRun ==
    /\ pc = "start"
    /\ doc \in [id : {None, "d1"}, content_url : {None, "u1"}]
    /\ secrets \in [api_key : {None, "key"}, processor_id : {None, "proc"}]
    /\ attempt = 0
    /\ posts = <<>>
    /\ sleeps = <<>>
    /\ response = NoneRec
    /\ result = NoneRec
    /\ matches = NoneRec
    /\ effects = <<>>
    /\ abort = "none"
    \* the other subsystems stay idle
    /\ clock = 0 /\ reminder_config = NoneRec /\ appointments = {} /\ markers = {} /\ sent_log = <<>> /\ last_run = NoneInt
    /\ field_list = <<>> /\ target_codes = {} /\ built_schema = NoneRec
    /\ runs = <<>> /\ heap = <<>> /\ returned = <<>>
    /\ extraction_raw = NoneRec /\ matched_type = NoneRec /\ raised = "none"
    /\ kpc = "idle" /\ metadata = NoneRec /\ min_confidence = NoneInt /\ prefill_call = NoneRec
    /\ xpc = "idle" /\ candidates = <<>> /\ extracted_codes = {} /\ idx = 1
    /\ matched_codes = {} /\ templates = <<>> /\ trace = <<>> /\ api_calls = <<>>
    /\ spc = "idle" /\ store = <<>> /\ call = NoneRec /\ scored = <<>>
    /\ mpc = "idle" /\ patients = {} /\ staff = <<>> /\ doc_extraction = NoneRec
    /\ queries = <<>> /\ patient_match = NoneRec /\ reviewer_match = NoneRec
    /\ tpc = "idle" /\ raw_value = NoneRec /\ flat = <<>> /\ reflat = <<>> /\ code_call = NoneRec

\* document_processor.py:24-38 and categorize.py:29-33: the checks before the
\* first request
ComputeStart ==
    /\ pc = "start"
    /\ IF doc.id = None \/ doc.content_url = None
       THEN /\ abort' = "missing_document"
            /\ pc' = "done"
       ELSE IF secrets.api_key = None \/ secrets.processor_id = None
       THEN /\ abort' = "missing_credentials"
            /\ pc' = "done"
       ELSE /\ abort' = abort
            /\ pc' = "call_api"
    /\ UNCHANGED <<doc, secrets, attempt, posts, sleeps, response, result, matches, effects>>
    /\ UNCHANGED <<extractVars, scoreVars, matchVars, codeVars, confVars, payloadVars, concVars, schemaVars, remVars>>

\* categorize.py:107-129: one iteration of the retry loop of _call_api
CallApiAttempt ==
    /\ pc = "call_api"
    /\ attempt \in AttemptRange
    /\ \E o \in PostOutcomes, body \in Bodies :
        /\ posts' = Append(posts, o)
        /\ IF o.kind = "exception"
           THEN IF attempt >= MAX_RETRIES
                THEN /\ response' = NoneRec
                     /\ pc' = "returned"
                     /\ UNCHANGED <<attempt, sleeps>>
                ELSE /\ sleeps' = Append(sleeps, attempt + 1)
                     /\ attempt' = attempt + 1
                     /\ UNCHANGED <<response, pc>>
           ELSE IF ReturnsAtOnce(o.status)
           THEN /\ response' = [status |-> o.status,
                                body |-> IF ResponseOk(o.status) THEN body ELSE NoBody]
                /\ pc' = "returned"
                /\ UNCHANGED <<attempt, sleeps>>
           ELSE /\ sleeps' = IF attempt < MAX_RETRIES THEN Append(sleeps, attempt + 1) ELSE sleeps
                /\ IF attempt + 1 \in AttemptRange
                   THEN /\ attempt' = attempt + 1
                        /\ UNCHANGED <<response, pc>>
                   ELSE /\ response' = NoneRec
                        /\ pc' = "returned"
                        /\ UNCHANGED attempt
    /\ UNCHANGED <<doc, secrets, result, matches, effects, abort>>
    /\ UNCHANGED <<extractVars, scoreVars, matchVars, codeVars, confVars, payloadVars, concVars, schemaVars, remVars>>

\* models.py:34-45
CategorizationResult(document_type, confidence, error) ==
    [document_type |-> document_type, confidence |-> confidence, error |-> error]

\* CategorizationResult.ok
ResultOk(r) == r.error = None

\* categorize.py:35-63: what categorize_document makes of _call_api's answer
categorize_document(resp) ==
    IF resp = NoneRec
    THEN CategorizationResult(NoneRec, NoneInt, "API request failed after retries")
    ELSE IF ~ResponseOk(resp.status)
    THEN CategorizationResult(NoneRec, NoneInt, format_error(resp))
    ELSE CategorizationResult(
            IF resp.body.document_type \in Slugs
            THEN SlugToType[resp.body.document_type] ELSE NoneRec,
            resp.body.confidence, None)

CategorizeReturn ==
    /\ pc = "returned"
    /\ result' = categorize_document(response)
    /\ pc' = "categorized"
    /\ UNCHANGED <<doc, secrets, attempt, posts, sleeps, response, matches, effects, abort>>
    /\ UNCHANGED <<extractVars, scoreVars, matchVars, codeVars, confVars, payloadVars, concVars, schemaVars, remVars>>

\* effects.py:92-98
build_annotations(confidence, error) ==
    IF confidence # NoneInt /\ 0 <= confidence /\ confidence <= 100
    THEN << [text |-> "AI %", percent |-> confidence, color |-> COLOR_CONFIDENCE] >>
    ELSE IF error # None
    THEN << [text |-> error, percent |-> NoneInt, color |-> COLOR_ERROR] >>
    ELSE <<>>

\* effects.py:22-43
categorize_effect(doc_id, doc_type, confidence, patient_error) ==
    [kind |-> "CategorizeDocument", document_id |-> doc_id, subject |-> doc_type.key,
     annotations |-> build_annotations(confidence, patient_error)]

\* effects.py:46-61
link_patient_effect(doc_id, patient, confidence) ==
    [kind |-> "LinkDocumentToPatient", document_id |-> doc_id, subject |-> patient,
     annotations |-> build_annotations(confidence, None)]

\* effects.py:64-89
assign_reviewer_effect(doc_id, reviewer, auto_assigned, confidence, patient_error) ==
    [kind |-> "AssignDocumentReviewer", document_id |-> doc_id, subject |-> reviewer,
     annotations |-> IF auto_assigned
                     THEN << [text |-> "Auto-assigned", percent |-> NoneInt,
                               color |-> COLOR_AUTO_ASSIGNED] >>
                     ELSE build_annotations(confidence, patient_error)]

\* models.py:48-57; what find_patient can return
PatientMatches ==
    { [patient |-> "patient1", error |-> None],
      [patient |-> None, error |-> "Multiple patients match MRN"],
      [patient |-> None, error |-> None] }

\* models.py:60-69; what find_reviewer can return
ReviewerMatches ==
    { [reviewer |-> "staff1", auto_assigned |-> FALSE],
      [reviewer |-> "bot", auto_assigned |-> TRUE],
      [reviewer |-> None, auto_assigned |-> FALSE] }

\* what prefill_document_fields can return: None, or the effect
PrefillResults == {None, "PrefillDocumentFields"}

\* document_processor.py:39-41: the mutant keeps a run alive after an error
AbortsOnErrorNever(r) == FALSE

AbortsOnError(r) == r.error # None

\* document_processor.py:39-71
ComputeFinish ==
    /\ pc = "categorized"
    /\ IF AbortsOnError(result)
       THEN /\ abort' = "categorize_error"
            /\ UNCHANGED <<matches, effects>>
       ELSE \E pm \in PatientMatches, rm \in ReviewerMatches, pf \in PrefillResults :
            LET categorize == IF result.document_type # NoneRec
                              THEN << categorize_effect(doc.id, result.document_type,
                                                         result.confidence, pm.error) >>
                              ELSE <<>>
                prefill == IF result.document_type # NoneRec
                              /\ result.document_type.template_type # None
                              /\ pf # None
                           THEN << [kind |-> pf, document_id |-> doc.id,
                                    subject |-> result.document_type.template_type,
                                    annotations |-> <<>>] >>
                           ELSE <<>>
                link == IF pm.patient # None
                        THEN << link_patient_effect(doc.id, pm.patient, result.confidence) >>
                        ELSE <<>>
                assign == IF rm.reviewer # None
                          THEN << assign_reviewer_effect(doc.id, rm.reviewer, rm.auto_assigned,
                                                          result.confidence, pm.error) >>
                          ELSE <<>>
            IN /\ matches' = [patient_match |-> pm, reviewer_match |-> rm, prefill |-> pf]
               /\ effects' = categorize \o prefill \o link \o assign
               /\ abort' = abort
    /\ pc' = "done"
    /\ UNCHANGED <<doc, secrets, attempt, posts, sleeps, response, result>>
    /\ UNCHANGED <<extractVars, scoreVars, matchVars, codeVars, confVars, payloadVars, concVars, schemaVars, remVars>>

NextRun == ComputeStart \/ CallApiAttempt \/ CategorizeReturn \/ ComputeFinish

SpecRun == InitRun /\ [][NextRun]_vars

\* ----------------------------------------------------------------------
\* Properties of the run (SpecRun)
\* ----------------------------------------------------------------------
Is4xx(status) == 400 <= status /\ status < 500

\* a post that _call_api answers with a retry: an exception or a 5xx
Retryable(o) == o.kind = "exception" \/ o.status >= 500

CallReturned ==
    \/ pc \in {"returned", "categorized"}
    \/ (pc = "done" /\ abort \notin {"missing_document", "missing_credentials"})

\* C1: a 4xx response is never retried. A POST answered with a status in
\* 400..499 is the last POST of the call, no backoff sleep follows it (the
\* sleeps made are those of the earlier attempts), the call has returned with
\* that very response, and categorize_document reports it as an error.
C1_No4xxRetry ==
    \A i \in 1..Len(posts) :
        (posts[i].kind = "response" /\ Is4xx(posts[i].status)) =>
            /\ i = Len(posts)
            /\ Len(sleeps) = i - 1
            /\ CallReturned
            /\ response # NoneRec
            /\ response.status = posts[i].status
            /\ (pc \in {"categorized", "done"} =>
                    /\ ~ResultOk(result)
                    /\ result.error = format_error(response))

\* C1 witness: a 5xx was retried, the second POST got a 404, the run is over
C1_Witness ==
    /\ pc = "done"
    /\ Len(posts) = 2
    /\ posts[1].status = 500
    /\ posts[2].status = 404
    /\ result.error = "Extend.ai: status=404"

\* C2: _call_api issues at most MAX_RETRIES + 1 = 3 POSTs and has returned once
\* the third is answered; when every POST ended in an exception or a 5xx
\* response it returns no response after exactly 3 POSTs and
\* categorize_document reports 'API request failed after retries'.
C2_BoundedRetry ==
    /\ Len(posts) <= MAX_RETRIES + 1
    /\ (pc = "call_api" => Len(posts) = attempt /\ attempt <= MAX_RETRIES)
    /\ (CallReturned /\ \A i \in 1..Len(posts) : Retryable(posts[i])) =>
            /\ Len(posts) = MAX_RETRIES + 1
            /\ response = NoneRec
            /\ (pc \in {"categorized", "done"} =>
                    result.error = "API request failed after retries")

\* C2 witness: exception, 503, exception; the run ended with the retry error
C2_Witness ==
    /\ pc = "done"
    /\ Len(posts) = 3
    /\ posts[1].kind = "exception"
    /\ posts[2].status = 503
    /\ posts[3].kind = "exception"
    /\ sleeps = <<1, 2>>
    /\ result.error = "API request failed after retries"

MaxCands == 3
NumCodes == 2

Codes == 1..NumCodes

\* a score n/100
Pct(n) == Frac(n, 100)

\* score < threshold, the threshold in hundredths
Below(score, threshold) == score.num * 100 < threshold * score.den

\* a < b for two scores
ScoreLess(a, b) == a.num * b.den < b.num * a.den

\* the scores candidates are drawn from: just below the gap-fill threshold,
\* at it (and so below the primary threshold), and at the primary threshold
CandidateScores == {Pct(4), Pct(5), Pct(30)}

\* prefill/scoring.py:56-61 - a field code is a code of Codes or NoneInt,
\* which stands for the values is_valid_code rejects (None, '', 'N/A', ...)
is_valid_code(code) == code # NoneInt

\* extraction.py:147-155 - the key of a template field, None when it has
\* neither a valid code nor a label
NoKey == [code |-> NoneInt, label |-> None]

field_key(f) ==
    IF is_valid_code(f.code) THEN [code |-> f.code, label |-> None]
    ELSE IF f.label # None THEN [code |-> NoneInt, label |-> f.label]
    ELSE NoKey

\* what field_model.objects.filter(report_template_id=...).order_by("sequence")
\* can return for a candidate, in sequence order: nothing; fields with neither
\* code nor label; or the template's coded fields (a field for each code the
\* candidate matched, since the candidate's codes are codes of fields of this
\* template) after a field keyed by its label, one code occurring twice
CodedFields(codes) ==
    IF codes = {} THEN <<>>
    ELSE LET RECURSIVE list(_)
             list(cs) == IF cs = {} THEN <<>>
                         ELSE LET c == CHOOSE x \in cs : \A y \in cs : x <= y
                              IN <<[code |-> c, label |-> "Result"]>> \o list(cs \ {c})
         IN list(codes) \o <<[code |-> CHOOSE x \in codes : TRUE, label |-> "Repeat"]>>

TemplateFieldLists(candidate) ==
    { <<>>,
      <<[code |-> NoneInt, label |-> None]>>,
      <<[code |-> NoneInt, label |-> "Comment"]>> \o CodedFields(candidate.codes) }

MAX_FIELDS == 120

\* the first n elements of a sequence (s[:n]); the mutant drops the cap
TakeAll(s, n) == s

Take(s, n) == SubSeq(s, 1, Min(n, Len(s)))

\* extraction.py:80-83 - the fields arrive in sequence order, so the sort by
\* (code not in preferred_codes, sequence) puts the preferred ones first and
\* keeps the sequence order inside each group
sorted_fields(fields, preferred_codes) ==
    SelectSeq(fields, LAMBDA f : f.code \in preferred_codes)
        \o SelectSeq(fields, LAMBDA f : f.code \notin preferred_codes)

\* extraction.py:85-102 - the loop over sorted_fields[:MAX_FIELDS]; a field
\* without a key or with a key already taken is skipped, so the fields kept
\* are those with a key that no earlier field has. The result is the sequence
\* of fields kept, in order; their keys are the schema properties and the
\* domain of key_map.
schema_fields(fs) ==
    LET numbered == [i \in 1..Len(fs) |-> [position |-> i, field |-> fs[i]]]
        kept == SelectSeq(numbered, LAMBDA e :
                    /\ field_key(e.field) # NoKey
                    /\ \A j \in 1..(e.position - 1) :
                          field_key(fs[j]) # field_key(e.field))
    IN [k \in 1..Len(kept) |-> kept[k].field]

\* extraction.py:78-110
build_schema(fields, preferred_codes) ==
    LET kept == schema_fields(Take(sorted_fields(fields, preferred_codes), MAX_FIELDS))
    IN [properties |-> {field_key(kept[i]) : i \in 1..Len(kept)}, key_map |-> kept]

\* the raw values the API returns for a key: blank or a reading
RawValues == {"", "7.2"}

\* extraction.py:158-169 - blank values normalise to None
normalize_value(raw) == IF raw = "" THEN None ELSE raw

\* the answers _call_api can hand to extract_with_schema for a schema: no
\* response (retries exhausted), a 4xx rejection, or a 2xx whose value is
\* empty or maps the schema's keys to raw values, all blank or all readings
\* (the loop only asks whether any value survives normalisation)
ExtractionValues(properties) ==
    { [k \in ks |-> v] : ks \in {{}, properties}, v \in RawValues }

ExtractionResponses(properties) ==
    {NoneRec}
        \cup {[status |-> 404, value |-> v] : v \in {<<>>}}
        \cup {[status |-> 200, value |-> v] : v \in ExtractionValues(properties)}

\* categorize.py:66-84 - (extraction, metadata, error); the file URL is present
extract_with_schema(resp) ==
    IF resp = NoneRec
    THEN [extraction |-> <<>>, metadata |-> NoneRec,
          error |-> "API request failed after retries"]
    ELSE IF ~ResponseOk(resp.status)
    THEN [extraction |-> <<>>, metadata |-> NoneRec, error |-> format_error(resp)]
    ELSE [extraction |-> resp.value, metadata |-> NoneRec, error |-> None]

\* A metadata object is NoneRec (absent) or [entries |-> f], f mapping keys to
\* entries. An entry is a dict or some other JSON value (is_dict); a dict's
\* ocrConfidence is NoneInt when the key is missing or null, else a number,
\* kept in hundredths (95 is 0.95).
MetaEntry(is_dict, conf) == [is_dict |-> is_dict, ocrConfidence |-> conf]

\* extraction.py:135-137 - the per-field confidence read from the metadata
field_confidence(md, key) ==
    IF md # NoneRec /\ key \in DOMAIN md.entries /\ md.entries[key].is_dict
    THEN md.entries[key].ocrConfidence
    ELSE NoneInt

\* extraction.py:138 - "conf or fallback_confidence": None and 0 are falsy
conf_or(conf, fallback_confidence) ==
    IF conf # NoneInt /\ conf # 0 THEN conf ELSE fallback_confidence

\* extraction.py:139-140 - the annotation a confidence yields
confidence_annotations(conf) ==
    IF conf # NoneInt /\ 0 <= conf /\ conf <= 100
    THEN << [text |-> "AI %", percent |-> conf, color |-> COLOR_CONFIDENCE] >>
    ELSE <<>>

\* extraction.py:113-144 - the keys that get a payload, with their values
\* and confidence annotations
build_prefill_fields(extraction, md, fallback_confidence) ==
    LET ks == {k \in DOMAIN extraction : normalize_value(extraction[k]) # None}
    IN [k \in ks |->
          [value |-> normalize_value(extraction[k]),
           annotations |-> confidence_annotations(
               conf_or(field_confidence(md, k), fallback_confidence))]]

\* extraction.py:29-30 - the threshold a candidate is held to
ThresholdAlwaysGapFill(is_gap_fill) == GAP_FILL_THRESHOLD

Threshold(is_gap_fill) ==
    IF is_gap_fill THEN GAP_FILL_THRESHOLD ELSE SCORE_THRESHOLD

\* extraction.py:37 - the codes a candidate would add
NewCodesIgnoringCovered(candidate, covered) == candidate.codes

NewCodes(candidate, covered) == candidate.codes \ covered

\* extraction.py:72 - matched_codes >= extracted_codes
CoverageCompleteNever(covered, target) == FALSE

CoverageComplete(covered, target) == target \subseteq covered

\* extraction.py:55-57 - what the loop does after a failed extraction call
OnExtractionErrorBreak == "break"

OnExtractionError == "continue"

\* ranked candidate lists as score_templates produces them on the code-match
\* path: ids distinct (the id is the rank), codes a non-empty subset of the
\* target codes, sorted in descending order of (score, number of codes)
Ranked(cs) ==
    \A i \in 1..(Len(cs) - 1) :
        \/ ScoreLess(cs[i + 1].score, cs[i].score)
        \/ /\ cs[i + 1].score = cs[i].score
           /\ Cardinality(cs[i + 1].codes) <= Cardinality(cs[i].codes)

CodeMatchCandidates(target) ==
    LET opts == [score : CandidateScores, codes : (SUBSET target) \ {{}}]
        lists == UNION { [1..n -> opts] : n \in 1..MaxCands }
    IN { [i \in 1..Len(l) |-> [id |-> i, score |-> l[i].score, codes |-> l[i].codes]] :
            l \in {l \in lists : Ranked(l)} }

\* candidate lists of the keyword fallback: up to 3 hits, score 0.1, no codes
FallbackCandidates ==
    { [i \in 1..n |-> [id |-> i, score |-> Pct(10), codes |-> {}]] : n \in 1..Min(3, MaxCands) }

\* main.py:42-53 - extract_fields_for_templates is called with a non-empty
\* code set and a non-empty candidate list
InitExtract ==
    /\ xpc = "loop"
    /\ extracted_codes \in (SUBSET Codes) \ {{}}
    /\ candidates \in CodeMatchCandidates(extracted_codes) \cup FallbackCandidates
    /\ idx = 1
    /\ matched_codes = {}
    /\ templates = <<>>
    /\ trace = <<>>
    /\ api_calls = <<>>
    \* the other subsystems stay idle
    /\ clock = 0 /\ reminder_config = NoneRec /\ appointments = {} /\ markers = {} /\ sent_log = <<>> /\ last_run = NoneInt
    /\ field_list = <<>> /\ target_codes = {} /\ built_schema = NoneRec
    /\ runs = <<>> /\ heap = <<>> /\ returned = <<>>
    /\ extraction_raw = NoneRec /\ matched_type = NoneRec /\ raised = "none"
    /\ kpc = "idle" /\ metadata = NoneRec /\ min_confidence = NoneInt /\ prefill_call = NoneRec
    /\ pc = "idle" /\ doc = NoneRec /\ secrets = NoneRec /\ attempt = 0
    /\ posts = <<>> /\ sleeps = <<>> /\ response = NoneRec /\ result = NoneRec
    /\ matches = NoneRec /\ effects = <<>> /\ abort = "none"
    /\ spc = "idle" /\ store = <<>> /\ call = NoneRec /\ scored = <<>>
    /\ mpc = "idle" /\ patients = {} /\ staff = <<>> /\ doc_extraction = NoneRec
    /\ queries = <<>> /\ patient_match = NoneRec /\ reviewer_match = NoneRec
    /\ tpc = "idle" /\ raw_value = NoneRec /\ flat = <<>> /\ reflat = <<>> /\ code_call = NoneRec

\* extraction.py:63-67 - templates.append(...); the mutant puts the new
\* template first
PrependTemplate(ts, t) == <<t>> \o ts

AddTemplate(ts, t) == Append(ts, t)

\* the end of one iteration: on to the next candidate, or out of the loop
StepOver(candidate, outcome, stop) ==
    /\ trace' = Append(trace, [id |-> candidate.id, outcome |-> outcome,
                               covered |-> matched_codes',
                               accepted |-> Len(templates')])
    /\ idx' = idx + 1
    /\ xpc' = IF stop \/ idx + 1 > Len(candidates) THEN "done" ELSE "loop"

\* extraction.py:28-75 - one iteration of the loop over the candidates
ExamineCandidate ==
    /\ xpc = "loop"
    /\ idx <= Len(candidates)
    /\ LET candidate == candidates[idx]
           is_gap_fill == Len(templates) > 0
           threshold == Threshold(is_gap_fill)
           new_codes == NewCodes(candidate, matched_codes)
       IN IF Below(candidate.score, threshold)
          THEN /\ UNCHANGED <<matched_codes, templates, api_calls>>
               /\ IF ~is_gap_fill
                  THEN StepOver(candidate, "below_break", TRUE)
                  ELSE StepOver(candidate, "below_skip", FALSE)
          ELSE IF new_codes = {}
          THEN /\ UNCHANGED <<matched_codes, templates, api_calls>>
               /\ StepOver(candidate, "no_new", FALSE)
          ELSE \E fields \in TemplateFieldLists(candidate) :
               IF fields = <<>>
               THEN /\ UNCHANGED <<matched_codes, templates, api_calls>>
                    /\ StepOver(candidate, "no_fields", FALSE)
               ELSE LET schema == build_schema(fields, extracted_codes)
                    IN IF schema.properties = {}
                       THEN /\ UNCHANGED <<matched_codes, templates, api_calls>>
                            /\ StepOver(candidate, "empty_schema", FALSE)
                       ELSE \E resp \in ExtractionResponses(schema.properties) :
                            LET res == extract_with_schema(resp)
                                \* the answers carry no metadata and the caller's
                                \* confidence is None: annotations play no part
                                \* in the loop's decisions
                                prefill_fields == build_prefill_fields(
                                    res.extraction, res.metadata, NoneInt)
                            IN /\ api_calls' = Append(api_calls, candidate.id)
                               /\ IF res.error # None
                                  THEN /\ UNCHANGED <<matched_codes, templates>>
                                       /\ StepOver(candidate, "api_error",
                                                   OnExtractionError = "break")
                                  ELSE IF DOMAIN prefill_fields = {}
                                  THEN /\ UNCHANGED <<matched_codes, templates>>
                                       /\ StepOver(candidate, "no_prefill", FALSE)
                                  ELSE /\ templates' = AddTemplate(templates,
                                              [template_id |-> candidate.id,
                                               fields |-> prefill_fields])
                                       /\ matched_codes' = matched_codes \cup candidate.codes
                                       /\ StepOver(candidate, "accepted",
                                              CoverageComplete(matched_codes', extracted_codes))
    /\ UNCHANGED <<candidates, extracted_codes>>
    /\ UNCHANGED <<runVars, scoreVars, matchVars, codeVars, confVars, payloadVars, concVars, schemaVars, remVars>>

NextExtract == ExamineCandidate

SpecExtract == InitExtract /\ [][NextExtract]_vars

\* ----------------------------------------------------------------------
\* Properties of the extraction loop (SpecExtract). trace[i] is the iteration
\* for candidates[i].
\* ----------------------------------------------------------------------
AcceptedBefore(i) == {j \in 1..(i - 1) : trace[j].outcome = "accepted"}

CoveredBefore(i) == IF i = 1 THEN {} ELSE trace[i - 1].covered

\* the iterations that went past the threshold and coverage checks
Probed(i) == trace[i].outcome \in
    {"no_fields", "empty_schema", "api_error", "no_prefill", "accepted"}

\* the iterations that called extract_with_schema
CalledApi(i) == trace[i].outcome \in {"api_error", "no_prefill", "accepted"}

\* the loop is still running after iteration i, unless i was the last candidate
LoopGoesOn(i) ==
    /\ (i = Len(trace) /\ i < Len(candidates)) => xpc = "loop"
    /\ (i = Len(trace) /\ i = Len(candidates)) => xpc = "done"

TemplateScore(k) == candidates[templates[k].template_id].score

\* C4: while no template has been accepted a candidate is probed only if its
\* score is >= 0.3 and a candidate below 0.3 ends the loop; once a template
\* has been accepted a candidate is probed only if its score is >= 0.05 and a
\* candidate below 0.05 is skipped while the loop goes on. So the first
\* returned template has score >= 0.3 and every later one score >= 0.05.
C4_Thresholds ==
    /\ \A i \in 1..Len(trace) :
        LET c == candidates[i]
            gap == AcceptedBefore(i) # {}
        IN /\ (Probed(i) /\ ~gap) => ~Below(c.score, SCORE_THRESHOLD)
           /\ (Probed(i) /\ gap) => ~Below(c.score, GAP_FILL_THRESHOLD)
           /\ (~gap /\ Below(c.score, SCORE_THRESHOLD)) =>
                 (trace[i].outcome = "below_break" /\ i = Len(trace) /\ xpc = "done")
           /\ (gap /\ Below(c.score, GAP_FILL_THRESHOLD)) =>
                 (trace[i].outcome = "below_skip" /\ LoopGoesOn(i))
    /\ \A k \in 1..Len(templates) :
        ~Below(TemplateScore(k), IF k = 1 THEN SCORE_THRESHOLD ELSE GAP_FILL_THRESHOLD)

\* C4 witness: the first candidate was accepted at the primary threshold, the
\* second fell below the gap-fill threshold and was skipped, and the loop went
\* on to examine the third
C4_Witness ==
    /\ Len(trace) = 3
    /\ trace[1].outcome = "accepted"
    /\ candidates[1].score = Pct(SCORE_THRESHOLD)
    /\ trace[2].outcome = "below_skip"
    /\ trace[3].outcome = "below_skip"
    /\ Len(templates) = 1

\* C5: the loop stops at the iteration at which the codes of the accepted
\* templates come to include every target code: that iteration is the last
\* one, it accepted a template, and no candidate is examined and no
\* extraction call made after it.
C5_StopsOnCoverage ==
    /\ \A i \in 1..Len(trace) :
        (extracted_codes \subseteq trace[i].covered) =>
            /\ i = Len(trace)
            /\ trace[i].outcome = "accepted"
            /\ api_calls[Len(api_calls)] = trace[i].id
    /\ (xpc # "idle" /\ extracted_codes \subseteq matched_codes) =>
            (xpc = "done" /\ trace # <<>> /\ trace[Len(trace)].covered = matched_codes)

\* C5 witness: coverage was completed by the second candidate and a third
\* candidate was left unexamined
C5_Witness ==
    /\ xpc = "done"
    /\ extracted_codes \subseteq matched_codes
    /\ Len(trace) = 2
    /\ Len(candidates) = 3
    /\ Len(templates) = 2

\* C6: no extraction call is made for a candidate whose codes are all covered
\* by the templates accepted before it, such a candidate is skipped and the
\* loop goes on, and every accepted template has a code that no template
\* accepted before it had.
C6_NoRedundantExtraction ==
    /\ \A i \in 1..Len(trace) :
        LET c == candidates[i]
        IN /\ (c.codes \subseteq CoveredBefore(i)) =>
                 (~CalledApi(i) /\ c.id \notin Range(api_calls))
           /\ (c.codes \subseteq CoveredBefore(i) /\ AcceptedBefore(i) # {}) =>
                 (trace[i].outcome \in {"no_new", "below_skip"} /\ LoopGoesOn(i))
           /\ trace[i].outcome = "accepted" => c.codes \ CoveredBefore(i) # {}
    /\ \A k \in 1..Len(templates) :
        candidates[templates[k].template_id].codes
            \ UNION {candidates[templates[j].template_id].codes : j \in 1..(k - 1)} # {}

\* C6 witness: the second candidate had only covered codes and was skipped
\* without a call; the third brought a new code and was accepted
C6_Witness ==
    /\ Len(trace) = 3
    /\ trace[1].outcome = "accepted"
    /\ trace[2].outcome = "no_new"
    /\ ~Below(candidates[2].score, SCORE_THRESHOLD)
    /\ trace[3].outcome = "accepted"
    /\ api_calls = <<1, 3>>

\* C7: a candidate whose extraction call returned an error is not in the
\* result, leaves the covered codes as they were, and the loop goes on to the
\* next candidate.
C7_ErrorSkipsCandidate ==
    \A i \in 1..Len(trace) :
        trace[i].outcome = "api_error" =>
            /\ \A k \in 1..Len(templates) : templates[k].template_id # trace[i].id
            /\ trace[i].covered = CoveredBefore(i)
            /\ Cardinality(AcceptedBefore(i + 1)) = Cardinality(AcceptedBefore(i))
            /\ LoopGoesOn(i)

\* C7 witness: the call for the first candidate failed, the second candidate
\* was extracted and accepted
C7_Witness ==
    /\ Len(trace) >= 2
    /\ trace[1].outcome = "api_error"
    /\ trace[2].outcome = "accepted"
    /\ Len(templates) = 1
    /\ templates[1].template_id = 2

\* ======================================================================
\* prefill/scoring.py
\* ======================================================================

\* bounds of the scoring model: the template-field table has at most MaxRows
\* rows over NumTemplates templates and NumStoreCodes codes; the keyword
\* search finds at most MaxHits templates
NumTemplates == 3
NumStoreCodes == 2
MaxRows == 3
MaxHits == 4
\* the same table with room for a template that repeats one code four times
WideTemplates == 3
WideCodes == 3
WideRows == 7

\* the coding system of a code of the table: code 1 is a LOINC code, the
\* others are SNOMED codes
code_system(c) == IF c = 1 THEN "LOINC" ELSE "SNOMED-CT"

\* code_system__icontains="snomed"
icontains_snomed(system) == system = "SNOMED-CT"

\* str.lower() on the keywords of the model
Lower(k) ==
    CASE k = "MRI" -> "mri"
      [] k = "Head" -> "head"
      [] k \in {"Ann", "ANN"} -> "ann"
      [] k = "Lee" -> "lee"
      [] k = "Ray" -> "ray"
      [] k \in {"Canvas", "CANVAS"} -> "canvas"
      [] k \in {"Bot", "BOT"} -> "bot"
      [] k = "N/A" -> "n/a"
      [] k = "NA" -> "na"
      [] k = "NONE" -> "none"
      [] OTHER -> k

\* the keyword lists extract_keywords can hand over (duplicates are kept)
KeywordLists == { <<>>, <<"MRI">>, <<"MRI", "Head">>, <<"Head", "Head">> }

\* the lower-cased keywords that occur in f"{name} {search_keywords}".lower()
\* of a template: template 1 is 'MRI Head ...', template 2 '... mri ...'
Haystack(t) ==
    IF t = 1 THEN {"mri", "head"} ELSE IF t = 2 THEN {"mri"} ELSE {}

\* main.py:77-83 - the template types that have models
TemplateTypes ==
    {"LabReportTemplate", "ImagingReportTemplate", "SpecialtyReportTemplate"}

\* number of rows of the table
RECURSIVE BagSize(_)
BagSize(bag) ==
    IF DOMAIN bag = {} THEN 0
    ELSE LET k == CHOOSE x \in DOMAIN bag : TRUE
         IN bag[k] + BagSize([x \in DOMAIN bag \ {k} |-> bag[x]])

\* the table with one more field of template t with code c
WithField(bag, t, c) ==
    IF <<t, c>> \in DOMAIN bag
    THEN [bag EXCEPT ![<<t, c>>] = @ + 1]
    ELSE [x \in DOMAIN bag \cup {<<t, c>>} |-> IF x = <<t, c>> THEN 1 ELSE bag[x]]

\* scoring.py:21-24 - the rows with code__in=codes (and a SNOMED coding system
\* for imaging templates), as a list: each row [report_template_id, code] as
\* often as the table holds it
RECURSIVE Repeat(_, _)
Repeat(x, n) == IF n = 0 THEN <<>> ELSE <<x>> \o Repeat(x, n - 1)

RECURSIVE RowList(_, _)
RowList(bag, keys) ==
    IF keys = {} THEN <<>>
    ELSE LET k == CHOOSE x \in keys :
                    \A y \in keys : x[1] < y[1] \/ (x[1] = y[1] /\ x[2] <= y[2])
         IN Repeat([report_template_id |-> k[1], code |-> k[2]], bag[k])
                \o RowList(bag, keys \ {k})

query_fields(bag, codes, template_type) ==
    LET code_filter == template_type = "ImagingReportTemplate"
        keys == {k \in DOMAIN bag :
                    /\ k[2] \in codes
                    /\ code_filter => icontains_snomed(code_system(k[2]))}
    IN RowList(bag, keys)

\* scoring.py:72-78 - code -> set of template ids
build_code_template_map(fields) ==
    LET cs == {fields[i].code : i \in 1..Len(fields)}
    IN [c \in cs |-> {fields[i].report_template_id : i \in {j \in 1..Len(fields) : fields[j].code = c}}]

\* scoring.py:33 - weights[code] = 1.0 / len(tids), as an exact rational
code_weights(code_templates) ==
    [c \in DOMAIN code_templates |-> Frac(1, Cardinality(code_templates[c]))]

\* scoring.py:34 - sum(weights.values())
RECURSIVE SumWeights(_, _)
SumWeights(weights, cs) ==
    IF cs = {} THEN Frac(0, 1)
    ELSE LET c == CHOOSE x \in cs : TRUE
         IN FracAdd(weights[c], SumWeights(weights, cs \ {c}))

\* scoring.py:92-98 - the loop over the fields: scores[tid] += weights[f.code],
\* one addition per field
RECURSIVE accumulate(_, _, _)
accumulate(fields, weights, tid) ==
    IF fields = <<>> THEN Frac(0, 1)
    ELSE LET f == Head(fields)
             rest == accumulate(Tail(fields), weights, tid)
         IN IF f.code \in DOMAIN weights /\ f.report_template_id = tid
            THEN FracAdd(weights[f.code], rest)
            ELSE rest

\* scoring.py:120-126
keyword_bonus(t, keywords) ==
    LET hits == Cardinality({i \in 1..Len(keywords) : Lower(keywords[i]) \in Haystack(t)})
    IN Frac(KEYWORD_BONUS * hits, 100)

\* a score passed on without a cap
CapNone(x) == x

\* scoring.py:107 - min(1.0, x)
Cap(x) == IF x.num > x.den THEN Frac(1, 1) ELSE x

\* score / total_weight
FracDiv(a, b) == Frac(a.num * b.den, a.den * b.num)

\* scoring.py:100-114 - the candidates before the sort, by template id
candidate_results(fields, weights, total_weight, keywords) ==
    LET tids == {fields[i].report_template_id : i \in
                    {j \in 1..Len(fields) : fields[j].code \in DOMAIN weights}}
    IN { [id |-> t,
          score |-> Cap(FracAdd(FracDiv(accumulate(fields, weights, t), total_weight),
                                keyword_bonus(t, keywords))),
          codes |-> {fields[i].code : i \in
                        {j \in 1..Len(fields) : fields[j].report_template_id = t}}] :
         t \in tids }

\* scoring.py:116 - the sort key (score, len(codes)): a sorts strictly
\* below b; the mutant sorts by score alone
KeyLessByScore(a, b) == ScoreLess(a.score, b.score)

KeyLess(a, b) ==
    \/ ScoreLess(a.score, b.score)
    \/ (a.score = b.score /\ Cardinality(a.codes) < Cardinality(b.codes))

\* scoring.py:116 - results.sort(key=(score, len(codes)), reverse=True). The
\* order of candidates with equal keys is that of the query result, which the
\* data store does not fix: every descending arrangement is possible.
SortedResults(rs) ==
    { l \in [1..Cardinality(rs) -> rs] :
        /\ \A i, j \in 1..Cardinality(rs) : i # j => l[i] # l[j]
        /\ \A i \in 1..(Cardinality(rs) - 1) : ~KeyLess(l[i], l[i + 1]) }

\* scoring.py:64-69 - what template_model.objects.active().search(...) can
\* find: the first n templates of the template table
SearchResults == { [i \in 1..n |-> i] : n \in 0..MaxHits }

\* a search result passed on whole
SliceAll(found) == Len(found)

\* scoring.py:68 - [:3]: the number of search hits kept
Slice3(found) == Min(3, Len(found))

keyword_fallback(keywords, found) ==
    IF keywords = <<>> THEN <<>>
    ELSE [i \in 1..Slice3(found) |-> [id |-> found[i], score |-> Pct(10), codes |-> {}]]

InitScore ==
    /\ spc = "store"
    /\ store = <<>>
    /\ call = NoneRec
    /\ scored = <<>>
    \* the other subsystems stay idle
    /\ clock = 0 /\ reminder_config = NoneRec /\ appointments = {} /\ markers = {} /\ sent_log = <<>> /\ last_run = NoneInt
    /\ field_list = <<>> /\ target_codes = {} /\ built_schema = NoneRec
    /\ runs = <<>> /\ heap = <<>> /\ returned = <<>>
    /\ extraction_raw = NoneRec /\ matched_type = NoneRec /\ raised = "none"
    /\ kpc = "idle" /\ metadata = NoneRec /\ min_confidence = NoneInt /\ prefill_call = NoneRec
    /\ pc = "idle" /\ doc = NoneRec /\ secrets = NoneRec /\ attempt = 0
    /\ posts = <<>> /\ sleeps = <<>> /\ response = NoneRec /\ result = NoneRec
    /\ matches = NoneRec /\ effects = <<>> /\ abort = "none"
    /\ xpc = "idle" /\ candidates = <<>> /\ extracted_codes = {} /\ idx = 1
    /\ matched_codes = {} /\ templates = <<>> /\ trace = <<>> /\ api_calls = <<>>
    /\ mpc = "idle" /\ patients = {} /\ staff = <<>> /\ doc_extraction = NoneRec
    /\ queries = <<>> /\ patient_match = NoneRec /\ reviewer_match = NoneRec
    /\ tpc = "idle" /\ raw_value = NoneRec /\ flat = <<>> /\ reflat = <<>> /\ code_call = NoneRec

\* the data store gains a template field (a field of template t with code c;
\* a template can hold several fields with one code)
AddField ==
    /\ spc = "store"
    /\ BagSize(store) < MaxRows
    /\ \E t \in 1..NumTemplates, c \in 1..NumStoreCodes :
        store' = WithField(store, t, c)
    /\ UNCHANGED <<spc, call, scored>>
    /\ UNCHANGED <<runVars, extractVars, matchVars, codeVars, confVars, payloadVars, concVars, schemaVars, remVars>>

AddFieldWide ==
    /\ spc = "store"
    /\ BagSize(store) < WideRows
    /\ \E t \in 1..WideTemplates, c \in 1..WideCodes :
        store' = WithField(store, t, c)
    /\ UNCHANGED <<spc, call, scored>>
    /\ UNCHANGED <<runVars, extractVars, matchVars, codeVars, confVars, payloadVars, concVars, schemaVars, remVars>>

\* the code sets extract_codes can hand over: codes of the table, and code 1
\* whether the table has it or not; never empty (main.py:42-45)
CallCodes(bag) == (SUBSET ({k[2] : k \in DOMAIN bag} \cup {1})) \ {{}}

\* scoring.py:11-36 - score_templates(field_model, template_model, codes,
\* keywords, template_type), for arguments drawn from the given sets
score_templates(codesets, keywordlists, types) ==
    /\ spc = "store"
    /\ \E codes \in codesets, keywords \in keywordlists, template_type \in types :
        LET fields == query_fields(store, codes, template_type)
            code_templates == build_code_template_map(fields)
            weights == code_weights(code_templates)
            total_weight == SumWeights(weights, DOMAIN weights)
        IN IF fields = <<>>
           THEN \E found \in SearchResults :
                /\ scored' = keyword_fallback(keywords, found)
                /\ call' = [codes |-> codes, keywords |-> keywords,
                            template_type |-> template_type, path |-> "fallback",
                            weights |-> <<>>, total_weight |-> Frac(0, 1),
                            raw |-> <<>>, found |-> found]
           ELSE /\ scored' \in SortedResults(
                        candidate_results(fields, weights, total_weight, keywords))
                /\ call' = [codes |-> codes, keywords |-> keywords,
                            template_type |-> template_type, path |-> "codes",
                            weights |-> weights, total_weight |-> total_weight,
                            found |-> <<>>,
                            raw |-> [t \in {fields[i].report_template_id : i \in 1..Len(fields)}
                                        |-> accumulate(fields, weights, t)]]
    /\ spc' = "scored"
    /\ UNCHANGED store
    /\ UNCHANGED <<runVars, extractVars, matchVars, codeVars, confVars, payloadVars, concVars, schemaVars, remVars>>

\* a call with any code set, keyword list and template type
ScoreTemplates == score_templates(CallCodes(store), KeywordLists, TemplateTypes)

\* a call for a lab document that carries every code of the table and no
\* keywords (no template gets a keyword bonus)
ScoreLabNoKeywords ==
    /\ DOMAIN store # {}
    /\ score_templates({{k[2] : k \in DOMAIN store}}, {<<>>}, {"LabReportTemplate"})

NextScore == AddField \/ ScoreTemplates

SpecScore == InitScore /\ [][NextScore]_vars

NextScoreWide == AddFieldWide \/ ScoreLabNoKeywords

SpecScoreWide == InitScore /\ [][NextScoreWide]_vars

\* ----------------------------------------------------------------------
\* Properties of score_templates (SpecScore, SpecScoreWide)
\* ----------------------------------------------------------------------
CodePath == spc = "scored" /\ call.path = "codes"

\* C8: on the code-match path the uncapped pre-bonus score of every template,
\* the weight accumulated for it divided by total_weight, is <= 1.0.
C8_PreBonusAtMostOne ==
    CodePath =>
        \A t \in DOMAIN call.raw :
            LET pre == FracDiv(call.raw[t], call.total_weight)
            IN pre.num <= pre.den

\* C9: every candidate score_templates returns, on the code-match path and
\* on the keyword-fallback path, has a final score in [0, 1].
C9_ScoreInUnitInterval ==
    \A i \in 1..Len(scored) :
        /\ scored[i].score.den > 0
        /\ 0 <= scored[i].score.num
        /\ scored[i].score.num <= scored[i].score.den

\* C9 witness: a template whose pre-bonus score is 1.0 also has a keyword
\* hit, and is returned with score 1.0
C9_Witness ==
    /\ CodePath
    /\ \E i \in 1..Len(scored) :
        /\ call.raw[scored[i].id] = call.total_weight
        /\ keyword_bonus(scored[i].id, call.keywords).num > 0
        /\ scored[i].score = Frac(1, 1)

\* C10: in one call, for two templates A and B where A's matched codes are a
\* strict superset of B's and both have zero keyword bonus, A's score is >=
\* B's score.
C10_SupersetScoresAtLeast ==
    CodePath =>
        \A i, j \in 1..Len(scored) :
            ( /\ scored[j].codes \subseteq scored[i].codes
              /\ scored[j].codes # scored[i].codes
              /\ keyword_bonus(scored[i].id, call.keywords).num = 0
              /\ keyword_bonus(scored[j].id, call.keywords).num = 0 )
            => ~ScoreLess(scored[i].score, scored[j].score)

\* the templates that have a field matched by the call with code c
TemplatesWithCode(c) ==
    { k[1] : k \in { x \in DOMAIN store :
                        /\ x[2] = c
                        /\ x[2] \in call.codes
                        /\ (call.template_type = "ImagingReportTemplate"
                                => icontains_snomed(code_system(x[2]))) } }

\* C11: on the code-match path each matched code c has weight 1/n_c, n_c the
\* number of distinct templates with a matched field of code c, and the
\* pre-bonus score of a template is the sum of the weights of its set of
\* matched codes divided by the sum of the weights of all matched codes.
C11_IdfWeightedScore ==
    CodePath =>
        /\ \A c \in DOMAIN call.weights :
                call.weights[c] = Frac(1, Cardinality(TemplatesWithCode(c)))
        /\ call.total_weight = SumWeights(call.weights, DOMAIN call.weights)
        /\ \A i \in 1..Len(scored) :
                FracDiv(call.raw[scored[i].id], call.total_weight)
                    = FracDiv(SumWeights(call.weights, scored[i].codes), call.total_weight)

\* no field of the table carries a code of the call
NoFieldMatches ==
    spc = "scored" /\ \A k \in DOMAIN store : k[2] \notin call.codes

\* C12: when no template field matches any code of the call, score_templates
\* returns only keyword-search hits: at most 3 candidates, in search order,
\* each with score 0.1 and no codes; with no keywords it returns nothing.
C12_KeywordFallback ==
    NoFieldMatches =>
        /\ call.path = "fallback"
        /\ Len(scored) <= 3
        /\ Len(scored) <= Len(call.found)
        /\ \A i \in 1..Len(scored) :
                /\ scored[i].id = call.found[i]
                /\ scored[i].score = Frac(1, 10)
                /\ scored[i].codes = {}
        /\ (call.keywords = <<>> => scored = <<>>)

\* C12 witness: the table has fields but none with a code of the call, the
\* search for two keywords finds four templates, three are returned
C12_Witness ==
    /\ NoFieldMatches
    /\ DOMAIN store # {}
    /\ Len(call.keywords) = 2
    /\ Len(call.found) = 4
    /\ Len(scored) = 3

\* ======================================================================
\* match.py
\* ======================================================================

\* bounds of the lookup model: the rows of the Patient and of the Staff table
MaxPatients == 2
MaxStaff == 2

\* truth value of an optional string: None and '' are false
Truthy(s) == s # None /\ s # ""

\* a or b
OrElse(a, b) == IF Truthy(a) THEN a ELSE b

\* str.strip() on a text given as a sequence of words and blanks
RECURSIVE LStrip(_)
LStrip(text) ==
    IF text # <<>> /\ Head(text) = " " THEN LStrip(Tail(text)) ELSE text

RECURSIVE RStrip(_)
RStrip(text) ==
    IF text # <<>> /\ text[Len(text)] = " "
    THEN RStrip(SubSeq(text, 1, Len(text) - 1)) ELSE text

\* a text passed on with its blanks
StripNone(text) == text

Strip(text) == RStrip(LStrip(text))

\* str.split() on such a text; the words of the texts of the model are
\* separated by blanks, so every part is one word
SplitWords(text) == SelectSeq(text, LAMBDA w : w # " ")

\* the full names of the model: '', ' ', 'Ann', 'Ann Lee', ' Ann M  Lee '
NameTexts ==
    { <<>>, <<" ">>, <<"Ann">>, <<"Ann", " ", "Lee">>,
      <<" ", "Ann", " ", "M", " ", " ", "Lee", " ">> }

FullNames == {NoneRec} \cup { [text |-> t] : t \in NameTexts }

\* An optional value of the upstream JSON: NoneRec (null or absent), a string
\* [text |-> t], a number [number |-> n] or a list [items |-> l]. Its truth
\* value: null, '', 0 and [] are false.
IsText(v) == v # NoneRec /\ "text" \in DOMAIN v

IsNumber(v) == v # NoneRec /\ "number" \in DOMAIN v

IsList(v) == v # NoneRec /\ "items" \in DOMAIN v

TruthyValue(v) ==
    IF v = NoneRec THEN FALSE
    ELSE IF IsText(v) THEN v.text # <<>>
    ELSE IF IsNumber(v) THEN v.number # 0
    ELSE v.items # <<>>

\* match.py:83-99 (full_name.strip() needs a string: name_raises below)
parse_full_name(first, last, full_name) ==
    IF Truthy(first) /\ Truthy(last) THEN <<first, last>>
    ELSE LET parts == IF TruthyValue(full_name)
                      THEN SplitWords(Strip(full_name.text)) ELSE <<>>
         IN IF Len(parts) >= 2
            THEN <<OrElse(first, parts[1]), OrElse(last, parts[Len(parts)])>>
            ELSE IF Len(parts) = 1
            THEN <<OrElse(first, parts[1]), last>>
            ELSE <<first, last>>

\* field__iexact=value
iexact(field, value) == Lower(field) = Lower(value)

\* models.py:48-57
PatientMatch(patient, error) == [patient |-> patient, error |-> error]

\* models.py:60-69
ReviewerMatch(reviewer, auto_assigned) ==
    [reviewer |-> reviewer, auto_assigned |-> auto_assigned]

\* the found property of both match results
Found(person) == person # NoneRec

\* the rows a Patient table can hold
PatientRecords ==
    { [mrn |-> m, first_name |-> n[1], last_name |-> n[2], birth_date |-> d] :
        m \in {"M1", "M2"},
        n \in { <<"Ann", "Lee">>, <<"ANN", "Lee">>, <<"Ann", "Ray">> },
        d \in {"D1", "D2"} }

\* the attributes a Staff row can have
StaffRecords ==
    { [npi_number |-> m, first_name |-> n[1], last_name |-> n[2]] :
        m \in {"N1", "N2"},
        n \in { <<"Ann", "Lee">>, <<"ANN", "Lee">>, <<"Ann", "Ray">>,
                <<"Canvas", "Bot">>, <<"CANVAS", "BOT">> } }

\* the patient part of a DocumentExtraction
PatientExtractions ==
    [ patient_id : {None, "", "M1"},
      patient_first_name : {None, "Ann"},
      patient_last_name : {None, "Lee"},
      patient_name : FullNames,
      date_of_birth : {None, "D1"},
      practitioner_npi : {None},
      practitioner_first_name : {None},
      practitioner_last_name : {None},
      practitioner_name : {NoneRec} ]

\* the practitioner part of a DocumentExtraction
ReviewerExtractions ==
    [ patient_id : {None},
      patient_first_name : {None},
      patient_last_name : {None},
      patient_name : {NoneRec},
      date_of_birth : {None},
      practitioner_npi : {None, "", "N1"},
      practitioner_first_name : {None, "Ann"},
      practitioner_last_name : {None, "Lee"},
      practitioner_name : FullNames ]

\* a tier that never reports an ambiguity
TierOutcomeNoAmbiguity(hits) == IF hits = 1 THEN "match" ELSE "none"

\* match.py:13-17, 33-37, 43-47 - what find_patient does with the rows a
\* tier found
TierOutcome(hits) ==
    IF hits = 1 THEN "match" ELSE IF hits > 1 THEN "ambiguous" ELSE "none"

\* a lookup that never uses the date of birth
DobTierHasInputNever(ex) == FALSE

\* match.py:27
DobTierHasInput(ex) == Truthy(ex.date_of_birth)

\* a lookup that takes any name for resolved
NameResolvedAlways(first, last) == TRUE

\* match.py:24 - the negation of 'not first or not last'
NameResolved(first, last) == Truthy(first) /\ Truthy(last)

\* the end of a tier: its rows, the error text of an ambiguity, the queries
\* issued up to it
TierResult(rows, outcome, error, qs) ==
    [match |-> IF outcome = "match"
               THEN PatientMatch(CHOOSE p \in rows : TRUE, None)
               ELSE IF outcome = "ambiguous"
               THEN PatientMatch(NoneRec, error)
               ELSE PatientMatch(NoneRec, None),
     queries |-> qs]

\* match.py:9-49 - find_patient(extraction) over the Patient table: the
\* PatientMatch and the queries issued, in order
find_patient(ex, table) ==
    LET by_mrn == {p \in table : p.mrn = ex.patient_id}
        q1 == IF Truthy(ex.patient_id)
              THEN << [tier |-> "mrn", hits |-> Cardinality(by_mrn)] >> ELSE <<>>
        name == parse_full_name(ex.patient_first_name, ex.patient_last_name,
                                ex.patient_name)
        first == name[1]
        last == name[2]
        by_name_dob == {p \in table : /\ iexact(p.first_name, first)
                                      /\ iexact(p.last_name, last)
                                      /\ p.birth_date = ex.date_of_birth}
        q2 == IF DobTierHasInput(ex)
              THEN q1 \o << [tier |-> "name_dob", hits |-> Cardinality(by_name_dob)] >>
              ELSE q1
        by_name == {p \in table : /\ iexact(p.first_name, first)
                                  /\ iexact(p.last_name, last)}
        q3 == q2 \o << [tier |-> "name", hits |-> Cardinality(by_name)] >>
    IN IF Truthy(ex.patient_id) /\ TierOutcome(Cardinality(by_mrn)) # "none"
       THEN TierResult(by_mrn, TierOutcome(Cardinality(by_mrn)),
                       "Multiple patients match MRN", q1)
       ELSE IF ~NameResolved(first, last)
       THEN TierResult({}, "none", None, q1)
       ELSE IF DobTierHasInput(ex) /\ TierOutcome(Cardinality(by_name_dob)) # "none"
       THEN TierResult(by_name_dob, TierOutcome(Cardinality(by_name_dob)),
                       "Multiple patients match name + DOB", q2)
       ELSE TierResult(by_name, TierOutcome(Cardinality(by_name)),
                       "Multiple patients match name", q3)

\* a fallback that ignores the Canvas Bot record
DefaultReviewerFirstOnly(bot, rows) == IF rows # <<>> THEN rows[1] ELSE NoneRec

\* match.py:74-75 - bot or Staff.objects.first()
DefaultReviewer(bot, rows) ==
    IF bot # <<>> THEN bot[1] ELSE IF rows # <<>> THEN rows[1] ELSE NoneRec

\* match.py:52-80 - find_reviewer(extraction) over the Staff table: the
\* ReviewerMatch and the queries issued, in order
find_reviewer(ex, rows) ==
    LET by_npi == SelectSeq(rows, LAMBDA r : r.npi_number = ex.practitioner_npi)
        q1 == IF Truthy(ex.practitioner_npi)
              THEN << [tier |-> "npi", hits |-> Len(by_npi)] >> ELSE <<>>
        name == parse_full_name(ex.practitioner_first_name, ex.practitioner_last_name,
                                ex.practitioner_name)
        first == name[1]
        last == name[2]
        by_name == SelectSeq(rows, LAMBDA r : /\ iexact(r.first_name, first)
                                              /\ iexact(r.last_name, last))
        q2 == IF Truthy(first) /\ Truthy(last)
              THEN q1 \o << [tier |-> "name", hits |-> Len(by_name)] >> ELSE q1
        bot == SelectSeq(rows, LAMBDA r : /\ iexact(r.first_name, "Canvas")
                                          /\ iexact(r.last_name, "Bot"))
        default == DefaultReviewer(bot, rows)
        q3 == q2 \o << [tier |-> "bot", hits |-> Len(bot)] >>
    IN IF Truthy(ex.practitioner_npi) /\ Len(by_npi) = 1
       THEN [match |-> ReviewerMatch(by_npi[1], FALSE), queries |-> q1]
       ELSE IF Truthy(first) /\ Truthy(last) /\ Len(by_name) = 1
       THEN [match |-> ReviewerMatch(by_name[1], FALSE), queries |-> q2]
       ELSE IF default # NoneRec
       THEN [match |-> ReviewerMatch(default, TRUE), queries |-> q3]
       ELSE [match |-> ReviewerMatch(NoneRec, FALSE), queries |-> q3]

InitPatient ==
    /\ mpc = "store"
    /\ patients = {}
    /\ staff = <<>>
    /\ doc_extraction \in PatientExtractions
    /\ queries = <<>>
    /\ patient_match = NoneRec
    /\ reviewer_match = NoneRec
    \* the other subsystems stay idle
    /\ clock = 0 /\ reminder_config = NoneRec /\ appointments = {} /\ markers = {} /\ sent_log = <<>> /\ last_run = NoneInt
    /\ field_list = <<>> /\ target_codes = {} /\ built_schema = NoneRec
    /\ runs = <<>> /\ heap = <<>> /\ returned = <<>>
    /\ extraction_raw = NoneRec /\ matched_type = NoneRec /\ raised = "none"
    /\ kpc = "idle" /\ metadata = NoneRec /\ min_confidence = NoneInt /\ prefill_call = NoneRec
    /\ pc = "idle" /\ doc = NoneRec /\ secrets = NoneRec /\ attempt = 0
    /\ posts = <<>> /\ sleeps = <<>> /\ response = NoneRec /\ result = NoneRec
    /\ matches = NoneRec /\ effects = <<>> /\ abort = "none"
    /\ xpc = "idle" /\ candidates = <<>> /\ extracted_codes = {} /\ idx = 1
    /\ matched_codes = {} /\ templates = <<>> /\ trace = <<>> /\ api_calls = <<>>
    /\ spc = "idle" /\ store = <<>> /\ call = NoneRec /\ scored = <<>>
    /\ tpc = "idle" /\ raw_value = NoneRec /\ flat = <<>> /\ reflat = <<>> /\ code_call = NoneRec

InitReviewer ==
    /\ mpc = "store"
    /\ patients = {}
    /\ staff = <<>>
    /\ doc_extraction \in ReviewerExtractions
    /\ queries = <<>>
    /\ patient_match = NoneRec
    /\ reviewer_match = NoneRec
    \* the other subsystems stay idle
    /\ clock = 0 /\ reminder_config = NoneRec /\ appointments = {} /\ markers = {} /\ sent_log = <<>> /\ last_run = NoneInt
    /\ field_list = <<>> /\ target_codes = {} /\ built_schema = NoneRec
    /\ runs = <<>> /\ heap = <<>> /\ returned = <<>>
    /\ extraction_raw = NoneRec /\ matched_type = NoneRec /\ raised = "none"
    /\ kpc = "idle" /\ metadata = NoneRec /\ min_confidence = NoneInt /\ prefill_call = NoneRec
    /\ pc = "idle" /\ doc = NoneRec /\ secrets = NoneRec /\ attempt = 0
    /\ posts = <<>> /\ sleeps = <<>> /\ response = NoneRec /\ result = NoneRec
    /\ matches = NoneRec /\ effects = <<>> /\ abort = "none"
    /\ xpc = "idle" /\ candidates = <<>> /\ extracted_codes = {} /\ idx = 1
    /\ matched_codes = {} /\ templates = <<>> /\ trace = <<>> /\ api_calls = <<>>
    /\ spc = "idle" /\ store = <<>> /\ call = NoneRec /\ scored = <<>>
    /\ tpc = "idle" /\ raw_value = NoneRec /\ flat = <<>> /\ reflat = <<>> /\ code_call = NoneRec

\* the Patient table gains a row
AddPatient ==
    /\ mpc = "store"
    /\ Cardinality(patients) < MaxPatients
    /\ \E p \in PatientRecords \ patients : patients' = patients \cup {p}
    /\ UNCHANGED <<mpc, staff, doc_extraction, queries, patient_match, reviewer_match>>
    /\ UNCHANGED <<runVars, extractVars, scoreVars, codeVars, confVars, payloadVars, concVars, schemaVars, remVars>>

\* the Staff table gains a row; its primary key is its position
AddStaff ==
    /\ mpc = "store"
    /\ Len(staff) < MaxStaff
    /\ \E r \in StaffRecords :
        staff' = Append(staff, [id |-> Len(staff) + 1, npi_number |-> r.npi_number,
                                first_name |-> r.first_name, last_name |-> r.last_name])
    /\ UNCHANGED <<mpc, patients, doc_extraction, queries, patient_match, reviewer_match>>
    /\ UNCHANGED <<runVars, extractVars, scoreVars, codeVars, confVars, payloadVars, concVars, schemaVars, remVars>>

\* document_processor.py:43 - patient_match = find_patient(result.extraction)
FindPatient ==
    /\ mpc = "store"
    /\ LET r == find_patient(doc_extraction, patients)
       IN /\ patient_match' = r.match
          /\ queries' = r.queries
    /\ mpc' = "matched"
    /\ UNCHANGED <<patients, staff, doc_extraction, reviewer_match>>
    /\ UNCHANGED <<runVars, extractVars, scoreVars, codeVars, confVars, payloadVars, concVars, schemaVars, remVars>>

\* document_processor.py:44 - reviewer_match = find_reviewer(result.extraction)
FindReviewer ==
    /\ mpc = "store"
    /\ LET r == find_reviewer(doc_extraction, staff)
       IN /\ reviewer_match' = r.match
          /\ queries' = r.queries
    /\ mpc' = "matched"
    /\ UNCHANGED <<patients, staff, doc_extraction, patient_match>>
    /\ UNCHANGED <<runVars, extractVars, scoreVars, codeVars, confVars, payloadVars, concVars, schemaVars, remVars>>

NextPatient == AddPatient \/ FindPatient

SpecPatient == InitPatient /\ [][NextPatient]_vars

NextReviewer == AddStaff \/ FindReviewer

SpecReviewer == InitReviewer /\ [][NextReviewer]_vars

\* ----------------------------------------------------------------------
\* Properties of find_patient (SpecPatient) and find_reviewer (SpecReviewer)
\* ----------------------------------------------------------------------
Matched == mpc = "matched"

\* the error text of an ambiguous tier
AmbiguityError(tier) ==
    CASE tier = "mrn" -> "Multiple patients match MRN"
      [] tier = "name_dob" -> "Multiple patients match name + DOB"
      [] tier = "name" -> "Multiple patients match name"

\* the tiers of find_patient, in the order of the claim
TierRank(tier) ==
    CASE tier = "mrn" -> 1
      [] tier = "name_dob" -> 2
      [] tier = "name" -> 3

QueriedTiers == { queries[i].tier : i \in 1..Len(queries) }

\* the extraction gives a first and a last name
Resolvable(first, last, full_name) ==
    LET name == parse_full_name(first, last, full_name)
    IN Truthy(name[1]) /\ Truthy(name[2])

PatientNameResolvable ==
    Resolvable(doc_extraction.patient_first_name, doc_extraction.patient_last_name,
               doc_extraction.patient_name)

\* C13: in find_patient a tier whose lookup returns more than one record ends
\* the lookup: it is the last tier queried, no patient is returned, and the
\* error names the tier ('Multiple patients match MRN' for the identifier).
C13_AmbiguityStopsLookup ==
    Matched =>
        \A i \in 1..Len(queries) :
            queries[i].hits > 1 =>
                /\ i = Len(queries)
                /\ ~Found(patient_match.patient)
                /\ patient_match.error = AmbiguityError(queries[i].tier)

\* C13 witness: two patients share the identifier of the extraction, one of
\* them alone has the extracted name and date of birth; only the identifier
\* tier is queried and the result is the MRN ambiguity
C13_Witness ==
    /\ Matched
    /\ queries = << [tier |-> "mrn", hits |-> 2] >>
    /\ PatientNameResolvable
    /\ doc_extraction.date_of_birth = "D1"
    /\ Cardinality({p \in patients : /\ iexact(p.first_name, "Ann")
                                     /\ iexact(p.last_name, "Lee")
                                     /\ p.birth_date = "D1"}) = 1
    /\ patient_match = PatientMatch(NoneRec, "Multiple patients match MRN")

\* C14: find_patient consults its tiers in the order identifier, name + date
\* of birth, name only. A tier is queried only when every earlier tier lacked
\* its input or returned zero records, and a tier returning exactly one record
\* ends the lookup with that patient and no error.
C14_TierOrder ==
    Matched =>
        /\ \A i, j \in 1..Len(queries) :
                i < j => TierRank(queries[i].tier) < TierRank(queries[j].tier)
        /\ \A i \in 1..(Len(queries) - 1) : queries[i].hits = 0
        /\ (QueriedTiers \cap {"name_dob", "name"} # {} /\ Truthy(doc_extraction.patient_id))
                => "mrn" \in QueriedTiers
        /\ ("name" \in QueriedTiers /\ Truthy(doc_extraction.date_of_birth))
                => "name_dob" \in QueriedTiers
        /\ ( /\ [tier |-> "mrn", hits |-> 0] \in Range(queries)
              /\ PatientNameResolvable
              /\ Truthy(doc_extraction.date_of_birth) )
                => "name_dob" \in QueriedTiers
        /\ [tier |-> "name_dob", hits |-> 0] \in Range(queries)
                => "name" \in QueriedTiers
        /\ \A i \in 1..Len(queries) :
                queries[i].hits = 1 =>
                    /\ i = Len(queries)
                    /\ Found(patient_match.patient)
                    /\ patient_match.patient \in patients
                    /\ patient_match.error = None
                    /\ (queries[i].tier = "mrn"
                            => patient_match.patient.mrn = doc_extraction.patient_id)
                    /\ (queries[i].tier = "name_dob"
                            => patient_match.patient.birth_date = doc_extraction.date_of_birth)
                    /\ (queries[i].tier # "mrn"
                            => /\ iexact(patient_match.patient.first_name, "Ann")
                               /\ iexact(patient_match.patient.last_name, "Lee"))

\* C14 witness: the identifier and name + date of birth find nobody, the name
\* alone finds one patient
C14_Witness ==
    /\ Matched
    /\ queries = << [tier |-> "mrn", hits |-> 0], [tier |-> "name_dob", hits |-> 0],
                    [tier |-> "name", hits |-> 1] >>
    /\ Found(patient_match.patient)
    /\ Cardinality(patients) = 2

\* C15: without a patient identifier and without a resolvable first and last
\* name find_patient returns found=False with error None and issues no
\* query; and no PatientMatch it returns has both a patient and an error.
C15_NoInputNoQuery ==
    Matched =>
        /\ (~Truthy(doc_extraction.patient_id) /\ ~PatientNameResolvable)
                => /\ patient_match = PatientMatch(NoneRec, None)
                   /\ queries = <<>>
        /\ ~(Found(patient_match.patient) /\ patient_match.error # None)

\* C15 witness: an empty identifier and only a first name, over a table with
\* patients: nothing is queried and nothing is found
C15_Witness ==
    /\ Matched
    /\ doc_extraction.patient_id = ""
    /\ doc_extraction.patient_last_name = None
    /\ doc_extraction.patient_name = [text |-> <<"Ann">>]
    /\ patients # {}
    /\ queries = <<>>
    /\ patient_match = PatientMatch(NoneRec, None)

ReviewerNameResolvable ==
    Resolvable(doc_extraction.practitioner_first_name,
               doc_extraction.practitioner_last_name,
               doc_extraction.practitioner_name)

\* the rows of the Staff table named Canvas Bot, in primary-key order
CanvasBots ==
    SelectSeq(staff, LAMBDA r : /\ Lower(r.first_name) = "canvas"
                                /\ Lower(r.last_name) = "bot")

\* C16: find_reviewer applies the single-hit discipline of find_patient at
\* both tiers (practitioner identifier, then name): exactly one hit is
\* returned as the reviewer with auto_assigned=False, and more than one hit
\* at a tier is reported as an ambiguity error on the match result and no
\* reviewer is picked.
C16_ReviewerSingleHit ==
    Matched =>
        \A i \in 1..Len(queries) :
            queries[i].tier \in {"npi", "name"} =>
                /\ queries[i].hits = 1 =>
                        /\ i = Len(queries)
                        /\ Found(reviewer_match.reviewer)
                        /\ ~reviewer_match.auto_assigned
                /\ queries[i].hits > 1 =>
                        /\ ~Found(reviewer_match.reviewer)
                        /\ "error" \in DOMAIN reviewer_match

\* C17: when neither tier yields a reviewer, find_reviewer auto-assigns the
\* staff record named Canvas Bot if one exists, otherwise the first staff
\* record, with auto_assigned=True; nothing is found only when the Staff
\* table is empty. auto_assigned=True implies found=True, and a reviewer
\* matched by identifier or name has auto_assigned=False.
C17_AutoAssignFallback ==
    Matched =>
        /\ (\A i \in 1..Len(queries) :
                queries[i].tier \in {"npi", "name"} => queries[i].hits # 1)
            => /\ reviewer_match.auto_assigned = (staff # <<>>)
               /\ (CanvasBots # <<>> => reviewer_match.reviewer = CanvasBots[1])
               /\ (CanvasBots = <<>> /\ staff # <<>> => reviewer_match.reviewer = staff[1])
               /\ (staff = <<>> => ~Found(reviewer_match.reviewer))
        /\ (~Found(reviewer_match.reviewer) => staff = <<>>)
        /\ (reviewer_match.auto_assigned => Found(reviewer_match.reviewer))
        /\ (\E i \in 1..Len(queries) :
                queries[i].tier \in {"npi", "name"} /\ queries[i].hits = 1)
            => /\ ~reviewer_match.auto_assigned
               /\ Found(reviewer_match.reviewer)

\* C17 witness: the identifier and the name of the extraction find nobody;
\* the Canvas Bot record, second in the table, is auto-assigned
C17_Witness ==
    /\ Matched
    /\ queries = << [tier |-> "npi", hits |-> 0], [tier |-> "name", hits |-> 0],
                    [tier |-> "bot", hits |-> 1] >>
    /\ Len(staff) = 2
    /\ reviewer_match = ReviewerMatch(staff[2], TRUE)

MaxWeight == 3

\* A string is a sequence of symbols: the delimiters ',', ';' and newline,
\* the blank, and words (runs of other characters).
Delims == {",", ";", "\n"}

Words == {"11580-8", "n/a", "NONE"}

Symbols == Delims \cup {" "} \cup Words

\* str.upper(), word by word
UpperWord(w) ==
    CASE w = "n/a" -> "N/A"
      [] w = "na" -> "NA"
      [] w = "none" -> "NONE"
      [] OTHER -> w

\* a comparison that is not case-insensitive
UpperNone(text) == text

Upper(text) == [i \in 1..Len(text) |-> UpperWord(text[i])]

\* values of a code field: null, a string, an integer, a boolean, a list
Null == [kind |-> "null"]

Str(text) == [kind |-> "str", text |-> text]

Scalar(word) == [kind |-> "scalar", str |-> word]

List(items) == [kind |-> "list", items |-> items]

\* the loinc_codes of the test test_filters_invalid_codes: '11580-8, N/A, , NONE'
ExampleCodes ==
    Str(<<"11580-8", ",", " ", "N/A", ",", " ", ",", " ", "NONE">>)

\* the values a raw code field starts from: None, '', the example, the
\* integer 123 and the boolean True (as str() renders them)
StartValues == {Null, Str(<<>>), ExampleCodes, Scalar(ToString(123)), Scalar("True")}

\* the values put into a list
ItemValues ==
    {Null, Str(<<" ", "NA", ";", "3016-3">>), Scalar(ToString(123)),
     List(<<Str(<<"n/a", " ", "x">>), List(<<>>)>>)}

\* the weight of a value
RECURSIVE Weight(_)
Weight(v) ==
    IF v.kind = "str" THEN (IF v \in StartValues \cup ItemValues THEN 1 ELSE Len(v.text))
    ELSE IF v.kind = "list"
    THEN IF v \in ItemValues THEN 1
         ELSE IF v.items = <<>> THEN 1
         ELSE Weight(v.items[Len(v.items)])
                + Weight(List(SubSeq(v.items, 1, Len(v.items) - 1)))
    ELSE 1

\* the rest of a text after the delimiters it starts with
RECURSIVE SkipDelims(_)
SkipDelims(text) ==
    IF text # <<>> /\ Head(text) \in Delims THEN SkipDelims(Tail(text)) ELSE text

\* scoring.py:139 - re.split(r"[,;\n]+", value): the pieces between the runs
\* of delimiters, cur being the piece read so far
RECURSIVE re_split(_, _)
re_split(text, cur) ==
    IF text = <<>> THEN <<cur>>
    ELSE IF Head(text) \in Delims
    THEN <<cur>> \o re_split(SkipDelims(text), <<>>)
    ELSE re_split(Tail(text), Append(cur, Head(text)))

\* scoring.py:139 - [p.strip() for p in ... if p.strip()]
RECURSIVE strip_pieces(_)
strip_pieces(pieces) ==
    IF pieces = <<>> THEN <<>>
    ELSE IF Strip(Head(pieces)) # <<>>
    THEN <<Strip(Head(pieces))>> \o strip_pieces(Tail(pieces))
    ELSE strip_pieces(Tail(pieces))

\* scoring.py:129-140 - _to_list(value): a list of strings
RECURSIVE to_list(_)
to_list(value) ==
    IF value.kind = "null" THEN <<>>
    ELSE IF value.kind = "list"
    THEN IF value.items = <<>> THEN <<>>
         ELSE to_list(Head(value.items)) \o to_list(List(Tail(value.items)))
    ELSE IF value.kind = "str"
    THEN strip_pieces(re_split(value.text, <<>>))
    ELSE << <<value.str>> >>

\* a list of strings as a value
AsValue(tokens) == List([i \in 1..Len(tokens) |-> Str(tokens[i])])

\* scoring.py:61 - the codes is_valid_code rejects, after strip and upper
InvalidCodes == { <<"N/A">>, <<"NA">>, <<"NONE">> }

\* scoring.py:56-61 - is_valid_code on a string
is_valid_code_str(code) ==
    /\ code # <<>>
    /\ LET stripped == Upper(Strip(code))
       IN stripped # <<>> /\ stripped \notin InvalidCodes

\* scoring.py:39-45 - extract_codes(template_type, extraction)
extract_codes(template_type, ex) ==
    LET codes == IF template_type = "LabReportTemplate"
                 THEN ex.loinc_codes ELSE ex.snomed_codes
        tokens == to_list(codes)
    IN { Strip(tokens[i]) : i \in {j \in 1..Len(tokens) : is_valid_code_str(tokens[j])} }

\* the code field extract_codes does not look at holds this
OtherCodes == Str(<<"3016-3">>)

InitCodes ==
    /\ tpc = "build"
    /\ raw_value \in StartValues
    /\ flat = <<>>
    /\ reflat = <<>>
    /\ code_call = NoneRec
    \* the other subsystems stay idle
    /\ clock = 0 /\ reminder_config = NoneRec /\ appointments = {} /\ markers = {} /\ sent_log = <<>> /\ last_run = NoneInt
    /\ field_list = <<>> /\ target_codes = {} /\ built_schema = NoneRec
    /\ runs = <<>> /\ heap = <<>> /\ returned = <<>>
    /\ extraction_raw = NoneRec /\ matched_type = NoneRec /\ raised = "none"
    /\ kpc = "idle" /\ metadata = NoneRec /\ min_confidence = NoneInt /\ prefill_call = NoneRec
    /\ pc = "idle" /\ doc = NoneRec /\ secrets = NoneRec /\ attempt = 0
    /\ posts = <<>> /\ sleeps = <<>> /\ response = NoneRec /\ result = NoneRec
    /\ matches = NoneRec /\ effects = <<>> /\ abort = "none"
    /\ xpc = "idle" /\ candidates = <<>> /\ extracted_codes = {} /\ idx = 1
    /\ matched_codes = {} /\ templates = <<>> /\ trace = <<>> /\ api_calls = <<>>
    /\ spc = "idle" /\ store = <<>> /\ call = NoneRec /\ scored = <<>>
    /\ mpc = "idle" /\ patients = {} /\ staff = <<>> /\ doc_extraction = NoneRec
    /\ queries = <<>> /\ patient_match = NoneRec /\ reviewer_match = NoneRec

\* the raw string gains a symbol
AppendSymbol ==
    /\ tpc = "build"
    /\ raw_value.kind = "str"
    /\ raw_value # ExampleCodes
    /\ Len(raw_value.text) < MaxWeight
    /\ \E ch \in Symbols : raw_value' = Str(Append(raw_value.text, ch))
    /\ UNCHANGED <<tpc, flat, reflat, code_call>>
    /\ UNCHANGED <<runVars, extractVars, scoreVars, matchVars, confVars, payloadVars, concVars, schemaVars, remVars>>

\* the raw value is put into a list
WrapList ==
    /\ tpc = "build"
    /\ Weight(raw_value) < MaxWeight
    /\ raw_value' = List(<<raw_value>>)
    /\ UNCHANGED <<tpc, flat, reflat, code_call>>
    /\ UNCHANGED <<runVars, extractVars, scoreVars, matchVars, confVars, payloadVars, concVars, schemaVars, remVars>>

\* the raw list gains an item
AppendItem ==
    /\ tpc = "build"
    /\ raw_value.kind = "list"
    /\ Weight(raw_value) < MaxWeight
    /\ \E item \in ItemValues : raw_value' = List(Append(raw_value.items, item))
    /\ UNCHANGED <<tpc, flat, reflat, code_call>>
    /\ UNCHANGED <<runVars, extractVars, scoreVars, matchVars, confVars, payloadVars, concVars, schemaVars, remVars>>

\* _to_list(raw) and _to_list of its result
ToList ==
    /\ tpc = "build"
    /\ flat' = to_list(raw_value)
    /\ reflat' = to_list(AsValue(to_list(raw_value)))
    /\ tpc' = "listed"
    /\ UNCHANGED <<raw_value, code_call>>
    /\ UNCHANGED <<runVars, extractVars, scoreVars, matchVars, confVars, payloadVars, concVars, schemaVars, remVars>>

\* main.py:39 - codes = extract_codes(template_type, extraction), the raw
\* value being the loinc_codes or the snomed_codes of the extraction
ExtractCodes ==
    /\ tpc = "build"
    /\ \E template_type \in TemplateTypes, field \in {"loinc_codes", "snomed_codes"} :
        LET ex == [loinc_codes |-> IF field = "loinc_codes" THEN raw_value ELSE OtherCodes,
                   snomed_codes |-> IF field = "snomed_codes" THEN raw_value ELSE OtherCodes]
        IN code_call' = [template_type |-> template_type, extraction |-> ex,
                         result |-> extract_codes(template_type, ex)]
    /\ tpc' = "extracted"
    /\ UNCHANGED <<raw_value, flat, reflat>>
    /\ UNCHANGED <<runVars, extractVars, scoreVars, matchVars, confVars, payloadVars, concVars, schemaVars, remVars>>

NextCodes == AppendSymbol \/ WrapList \/ AppendItem \/ ToList \/ ExtractCodes

SpecCodes == InitCodes /\ [][NextCodes]_vars

\* ----------------------------------------------------------------------
\* Properties of _to_list and extract_codes (SpecCodes)
\* ----------------------------------------------------------------------
\* a trimmed non-empty string
TrimmedToken(token) ==
    /\ token # <<>>
    /\ Head(token) # " "
    /\ token[Len(token)] # " "

\* C19: _to_list is idempotent under re-flattening: _to_list(_to_list(L)) ==
\* _to_list(L) for every value L (null, string, delimited string, scalar, or
\* nested list of such values), and every token of _to_list(L) is a trimmed
\* non-empty string.
C19_ToListIdempotent ==
    tpc = "listed" =>
        /\ reflat = flat
        /\ \A i \in 1..Len(flat) : TrimmedToken(flat[i])

\* C19 witness: a list of a delimited, padded string and a nested list
\* flattens to four tokens, and flattens to the same four again
C19_Witness ==
    /\ tpc = "listed"
    /\ raw_value = List(<<ExampleCodes,
                          List(<<Str(<<"n/a", " ", "x">>), List(<<>>)>>)>>)
    /\ flat = << <<"11580-8">>, <<"N/A">>, <<"NONE">>, <<"n/a", " ", "x">> >>
    /\ reflat = flat

\* the field of the extraction extract_codes selects
SelectedCodes ==
    IF code_call.template_type = "LabReportTemplate"
    THEN code_call.extraction.loinc_codes
    ELSE code_call.extraction.snomed_codes

\* a token that, trimmed, equals '', 'N/A', 'NA' or 'NONE' in any case
RejectedToken(token) ==
    LET t == Strip(token)
    IN [i \in 1..Len(t) |-> Lower(t[i])] \in { <<>>, <<"n/a">>, <<"na">>, <<"none">> }

\* C20: extract_codes returns exactly the set of trimmed tokens of the
\* selected code field (loinc_codes for 'LabReportTemplate', snomed_codes for
\* every other template type) that are not, case-insensitively, '', 'N/A',
\* 'NA' or 'NONE'; loinc_codes '11580-8, N/A, , NONE' gives {'11580-8'}.
C20_ExtractCodes ==
    tpc = "extracted" =>
        /\ code_call.result =
                { Strip(t) : t \in { x \in Range(to_list(SelectedCodes)) : ~RejectedToken(x) } }
        /\ ( /\ code_call.template_type = "LabReportTemplate"
             /\ code_call.extraction.loinc_codes = ExampleCodes )
                => code_call.result = { <<"11580-8">> }

\* C20 witness: a lab template and the loinc_codes string 'n/a,11580-8' give
\* the one code 11580-8
C20_Witness ==
    /\ tpc = "extracted"
    /\ code_call.template_type = "LabReportTemplate"
    /\ code_call.extraction.loinc_codes = Str(<<"n/a", ",", "11580-8">>)
    /\ code_call.result = { <<"11580-8">> }

\* ======================================================================
\* Confidence part: _extract_min_confidence and the per-field confidence
\* annotations of _build_prefill_fields
\* ======================================================================

\* the keys the metadata and the extraction may carry
MaxKeys == 3

MetaKeys == 1..MaxKeys

\* confidences, in hundredths: 0, two ordinary ones, and one out of range
ConfidenceValues == {0, 80, 95, 150}

\* the entries a metadata object may hold: a non-dict value (a string, null),
\* a dict without a usable ocrConfidence, or a dict with a numeric one
MetaEntries ==
    {MetaEntry(FALSE, NoneInt)}
        \cup {MetaEntry(TRUE, c) : c \in ConfidenceValues \cup {NoneInt}}

\* the document-level confidences handed to _build_prefill_fields
FallbackConfidences == {NoneInt, 0, 95}

\* categorize.py:199-204 - the numeric confidences of the dict entries
numeric_scores(md) ==
    { md.entries[k].ocrConfidence :
        k \in {x \in DOMAIN md.entries : /\ md.entries[x].is_dict
                                          /\ md.entries[x].ocrConfidence # NoneInt} }

\* categorize.py:205 - min(scores)
max_score(scores) == CHOOSE m \in scores : \A x \in scores : x <= m

min_score(scores) == CHOOSE m \in scores : \A x \in scores : m <= x

\* categorize.py:195-205
extract_min_confidence(md) ==
    IF md = NoneRec \/ DOMAIN md.entries = {}
    THEN NoneInt
    ELSE IF numeric_scores(md) = {} THEN NoneInt
    ELSE min_score(numeric_scores(md))

InitConfidence ==
    /\ kpc = "build"
    /\ metadata \in {NoneRec, [entries |-> <<>>]}
    /\ min_confidence = NoneInt
    /\ prefill_call = NoneRec
    \* the other subsystems stay idle
    /\ clock = 0 /\ reminder_config = NoneRec /\ appointments = {} /\ markers = {} /\ sent_log = <<>> /\ last_run = NoneInt
    /\ field_list = <<>> /\ target_codes = {} /\ built_schema = NoneRec
    /\ runs = <<>> /\ heap = <<>> /\ returned = <<>>
    /\ extraction_raw = NoneRec /\ matched_type = NoneRec /\ raised = "none"
    /\ pc = "idle" /\ doc = NoneRec /\ secrets = NoneRec /\ attempt = 0
    /\ posts = <<>> /\ sleeps = <<>> /\ response = NoneRec /\ result = NoneRec
    /\ matches = NoneRec /\ effects = <<>> /\ abort = "none"
    /\ xpc = "idle" /\ candidates = <<>> /\ extracted_codes = {} /\ idx = 1
    /\ matched_codes = {} /\ templates = <<>> /\ trace = <<>> /\ api_calls = <<>>
    /\ spc = "idle" /\ store = <<>> /\ call = NoneRec /\ scored = <<>>
    /\ mpc = "idle" /\ patients = {} /\ staff = <<>> /\ doc_extraction = NoneRec
    /\ queries = <<>> /\ patient_match = NoneRec /\ reviewer_match = NoneRec
    /\ tpc = "idle" /\ raw_value = NoneRec /\ flat = <<>> /\ reflat = <<>> /\ code_call = NoneRec

\* the upstream answer gains one more metadata entry
AddEntry ==
    /\ kpc = "build"
    /\ metadata # NoneRec
    /\ \E k \in MetaKeys \ DOMAIN metadata.entries, e \in MetaEntries :
         metadata' = [entries |->
                        [x \in DOMAIN metadata.entries \cup {k} |->
                           IF x = k THEN e ELSE metadata.entries[x]]]
    /\ UNCHANGED <<kpc, min_confidence, prefill_call>>
    /\ UNCHANGED <<runVars, extractVars, scoreVars, matchVars, codeVars, payloadVars, concVars, schemaVars, remVars>>

\* categorize.py:50 - confidence = _extract_min_confidence(metadata)
ExtractMinConfidence ==
    /\ kpc = "build"
    /\ min_confidence' = extract_min_confidence(metadata)
    /\ kpc' = "min"
    /\ UNCHANGED <<metadata, prefill_call>>
    /\ UNCHANGED <<runVars, extractVars, scoreVars, matchVars, codeVars, payloadVars, concVars, schemaVars, remVars>>

\* extraction.py:59 - _build_prefill_fields over an extraction that has a raw
\* value for every key, the metadata, and a document-level confidence
BuildPrefillFields ==
    /\ kpc = "min"
    /\ \E extraction \in [MetaKeys -> RawValues], fb \in FallbackConfidences :
         prefill_call' = [extraction |-> extraction,
                          fallback_confidence |-> fb,
                          result |-> build_prefill_fields(extraction, metadata, fb)]
    /\ kpc' = "done"
    /\ UNCHANGED <<metadata, min_confidence>>
    /\ UNCHANGED <<runVars, extractVars, scoreVars, matchVars, codeVars, payloadVars, concVars, schemaVars, remVars>>

NextConfidence == AddEntry \/ ExtractMinConfidence \/ BuildPrefillFields

SpecConfidence == InitConfidence /\ [][NextConfidence]_vars

\* the numeric confidences the metadata entries carry
CarriedConfidences ==
    IF metadata = NoneRec THEN {}
    ELSE { metadata.entries[k].ocrConfidence :
             k \in {x \in DOMAIN metadata.entries :
                      /\ metadata.entries[x].is_dict
                      /\ metadata.entries[x].ocrConfidence \in ConfidenceValues} }

\* C21: the aggregate confidence is None when no metadata entry carries a
\* numeric ocrConfidence; otherwise it is one of the carried confidences and
\* no carried confidence lies below it (non-dict entries and dicts without a
\* numeric confidence do not count).
C21_MinConfidence ==
    kpc \in {"min", "done"} =>
        IF CarriedConfidences = {}
        THEN min_confidence = NoneInt
        ELSE /\ min_confidence \in CarriedConfidences
             /\ \A c \in CarriedConfidences : min_confidence <= c

C21_Witness ==
    /\ kpc = "min"
    /\ metadata = [entries |-> <<MetaEntry(TRUE, 95), MetaEntry(FALSE, NoneInt),
                                 MetaEntry(TRUE, 80)>>]
    /\ min_confidence = 80

\* the per-field confidence of a key: the numeric ocrConfidence of its dict
\* entry, NoneInt when the metadata has none for it
PerFieldConfidence(key) ==
    IF /\ metadata # NoneRec
       /\ key \in DOMAIN metadata.entries
       /\ metadata.entries[key].is_dict
    THEN metadata.entries[key].ocrConfidence
    ELSE NoneInt

\* C22: a prefilled field whose metadata entry carries a per-field
\* ocrConfidence is annotated from that value; only a field without a
\* per-field confidence is annotated from the document-level confidence.
C22_PerFieldConfidence ==
    kpc = "done" =>
        \A k \in DOMAIN prefill_call.result :
            prefill_call.result[k].annotations =
                IF PerFieldConfidence(k) # NoneInt
                THEN confidence_annotations(PerFieldConfidence(k))
                ELSE confidence_annotations(prefill_call.fallback_confidence)

\* ======================================================================
\* Payload part: the run over an extraction whose fields may have
\* unexpected types (categorize.py:41-48, document_processor.py:43-44)
\* ======================================================================

\* the values the upstream answer can carry in a name field or in
\* document_type: null, a string, a number, a list
NameValues ==
    { NoneRec, [text |-> <<"Ann", " ", "Lee">>], [number |-> 123], [number |-> 0],
      [items |-> <<>>], [items |-> <<"Ann", "Lee">>] }

DocTypeValues ==
    { NoneRec, [text |-> <<"lab_report">>], [text |-> <<"unlisted">>], [number |-> 123],
      [items |-> <<>>], [items |-> <<"lab_report">>] }

\* output["value"]: the fields the run reads, None standing for null and for
\* an absent key alike (model_construct and raw.get both give None then)
RawExtractions ==
    [ document_type : DocTypeValues,
      patient_id : {None, "M1"},
      patient_first_name : {None, "Ann"},
      patient_last_name : {None},
      patient_name : NameValues,
      date_of_birth : {None},
      practitioner_npi : {None, "N1"},
      practitioner_first_name : {None},
      practitioner_last_name : {None, "Lee"},
      practitioner_name : NameValues ]

\* models.py:13, 25, 31 - the declared type "str | None" of a field
IsStrOrNone(v) == v = NoneRec \/ IsText(v)

\* categorize.py:189-190 - model_validate accepts the payload
Validates(raw) ==
    /\ IsStrOrNone(raw.document_type)
    /\ IsStrOrNone(raw.patient_name)
    /\ IsStrOrNone(raw.practitioner_name)

\* categorize.py:190 - a payload that validates gives a model of its values
model_validate(raw) == raw

\* categorize.py:192 - model_construct sets the attributes to the values
\* given, whatever their types
model_construct(raw) == raw

\* categorize.py:187-192
parse_extraction(raw) ==
    IF Validates(raw) THEN model_validate(raw) ELSE model_construct(raw)

\* categorize.py:47 - extraction.document_type or extraction_raw.get("document_type")
doc_slug(ex, raw) ==
    IF TruthyValue(ex.document_type) THEN ex.document_type ELSE raw.document_type

\* categorize.py:48 - dict.get hashes its key: a list is unhashable
Unhashable(v) == IsList(v)

slug_to_type_get(slug) ==
    IF IsText(slug) /\ Len(slug.text) = 1 /\ slug.text[1] \in Slugs
    THEN SlugToType[slug.text[1]] ELSE NoneRec

\* match.py:89-93 - _parse_full_name reaches full_name.strip() with a value
\* that is not a string
name_raises(first, last, full_name) ==
    /\ ~(Truthy(first) /\ Truthy(last))
    /\ TruthyValue(full_name)
    /\ ~IsText(full_name)

\* match.py:11-23 - find_patient gets past the MRN tier and the name raises
find_patient_raises(ex, table) ==
    /\ ~(Truthy(ex.patient_id) /\ {p \in table : p.mrn = ex.patient_id} # {})
    /\ name_raises(ex.patient_first_name, ex.patient_last_name, ex.patient_name)

\* match.py:54-64 - find_reviewer gets past the NPI tier and the name raises
find_reviewer_raises(ex, rows) ==
    /\ ~(/\ Truthy(ex.practitioner_npi)
         /\ Len(SelectSeq(rows, LAMBDA r : r.npi_number = ex.practitioner_npi)) = 1)
    /\ name_raises(ex.practitioner_first_name, ex.practitioner_last_name,
                   ex.practitioner_name)

InitPayload ==
    /\ mpc = "payload"
    /\ extraction_raw \in RawExtractions
    /\ patients \in { {}, {[mrn |-> "M1", first_name |-> "Ann", last_name |-> "Lee",
                           birth_date |-> "D1"]} }
    /\ staff \in { <<>>, <<[npi_number |-> "N1", first_name |-> "Ann",
                            last_name |-> "Lee"]>> }
    /\ doc_extraction = NoneRec
    /\ queries = <<>>
    /\ patient_match = NoneRec
    /\ reviewer_match = NoneRec
    /\ matched_type = NoneRec
    /\ raised = "none"
    \* the other subsystems stay idle
    /\ clock = 0 /\ reminder_config = NoneRec /\ appointments = {} /\ markers = {} /\ sent_log = <<>> /\ last_run = NoneInt
    /\ field_list = <<>> /\ target_codes = {} /\ built_schema = NoneRec
    /\ runs = <<>> /\ heap = <<>> /\ returned = <<>>
    /\ pc = "idle" /\ doc = NoneRec /\ secrets = NoneRec /\ attempt = 0
    /\ posts = <<>> /\ sleeps = <<>> /\ response = NoneRec /\ result = NoneRec
    /\ matches = NoneRec /\ effects = <<>> /\ abort = "none"
    /\ xpc = "idle" /\ candidates = <<>> /\ extracted_codes = {} /\ idx = 1
    /\ matched_codes = {} /\ templates = <<>> /\ trace = <<>> /\ api_calls = <<>>
    /\ spc = "idle" /\ store = <<>> /\ call = NoneRec /\ scored = <<>>
    /\ tpc = "idle" /\ raw_value = NoneRec /\ flat = <<>> /\ reflat = <<>> /\ code_call = NoneRec
    /\ kpc = "idle" /\ metadata = NoneRec /\ min_confidence = NoneInt /\ prefill_call = NoneRec

\* categorize.py:46
ParseExtraction ==
    /\ mpc = "payload"
    /\ doc_extraction' = parse_extraction(extraction_raw)
    /\ mpc' = "parsed"
    /\ UNCHANGED <<patients, staff, queries, patient_match, reviewer_match>>
    /\ UNCHANGED <<extraction_raw, matched_type, raised>>
    /\ UNCHANGED <<runVars, extractVars, scoreVars, codeVars, confVars, concVars, schemaVars, remVars>>

\* categorize.py:47-48
LookupType ==
    /\ mpc = "parsed"
    /\ LET slug == doc_slug(doc_extraction, extraction_raw)
       IN IF Unhashable(slug)
          THEN /\ raised' = "TypeError"
               /\ mpc' = "raised"
               /\ UNCHANGED matched_type
          ELSE /\ matched_type' = slug_to_type_get(slug)
               /\ mpc' = "typed"
               /\ UNCHANGED raised
    /\ UNCHANGED <<patients, staff, doc_extraction, queries, patient_match, reviewer_match>>
    /\ UNCHANGED extraction_raw
    /\ UNCHANGED <<runVars, extractVars, scoreVars, codeVars, confVars, concVars, schemaVars, remVars>>

\* document_processor.py:43
FindPatientOfPayload ==
    /\ mpc = "typed"
    /\ IF find_patient_raises(doc_extraction, patients)
       THEN /\ raised' = "AttributeError"
            /\ mpc' = "raised"
            /\ UNCHANGED <<patient_match, queries>>
       ELSE /\ LET r == find_patient(doc_extraction, patients)
               IN /\ patient_match' = r.match
                  /\ queries' = r.queries
            /\ mpc' = "patient"
            /\ UNCHANGED raised
    /\ UNCHANGED <<patients, staff, doc_extraction, reviewer_match>>
    /\ UNCHANGED <<extraction_raw, matched_type>>
    /\ UNCHANGED <<runVars, extractVars, scoreVars, codeVars, confVars, concVars, schemaVars, remVars>>

\* document_processor.py:44
FindReviewerOfPayload ==
    /\ mpc = "patient"
    /\ IF find_reviewer_raises(doc_extraction, staff)
       THEN /\ raised' = "AttributeError"
            /\ mpc' = "raised"
            /\ UNCHANGED <<reviewer_match, queries>>
       ELSE /\ LET r == find_reviewer(doc_extraction, staff)
               IN /\ reviewer_match' = r.match
                  /\ queries' = queries \o r.queries
            /\ mpc' = "matched"
            /\ UNCHANGED raised
    /\ UNCHANGED <<patients, staff, doc_extraction, patient_match>>
    /\ UNCHANGED <<extraction_raw, matched_type>>
    /\ UNCHANGED <<runVars, extractVars, scoreVars, codeVars, confVars, concVars, schemaVars, remVars>>

NextPayload ==
    ParseExtraction \/ LookupType \/ FindPatientOfPayload \/ FindReviewerOfPayload

SpecPayload == InitPayload /\ [][NextPayload]_vars

\* C23: the run over a payload whose fields have unexpected types ends
\* without an exception: the document-type lookup and the patient and
\* reviewer matching never raise.
C23_MalformedNeverRaises == raised = "none"

\* ======================================================================
\* Concurrent runs: two invocations of compute for different documents,
\* interleaved step by step (document_processor.py:41-71)
\* ======================================================================

RunIds == {1, 2}

\* the document of each run
DocumentOf(r) == IF r = 1 THEN "d1" ELSE "d2"

\* the DocumentExtraction of an answer: an MRN and an NPI, or neither
ExtractionOf(mrn, npi) ==
    [ patient_id |-> mrn, patient_first_name |-> None, patient_last_name |-> None,
      patient_name |-> NoneRec, date_of_birth |-> None,
      practitioner_npi |-> npi, practitioner_first_name |-> None,
      practitioner_last_name |-> None, practitioner_name |-> NoneRec ]

\* what categorize_document returned to a run (no error), and what its
\* prefill_document_fields call will return when it is made
RunInputs ==
    { [document_type |-> t, confidence |-> 95, extraction |-> ExtractionOf(m, n),
       prefill |-> pf] :
        t \in {NoneRec, SlugToType["referral"], SlugToType["lab_report"]},
        m \in {None, "M1"}, n \in {None, "N1"}, pf \in PrefillResults }

\* the states of the clinical data store the runs read
DataStores ==
    { [patients |-> {}, staff |-> <<>>],
      [patients |-> {[mrn |-> "M1", first_name |-> "Ann", last_name |-> "Lee",
                      birth_date |-> "D1"]},
       staff |-> <<[npi_number |-> "N1", first_name |-> "Ann", last_name |-> "Lee"]>>],
      [patients |-> {[mrn |-> "M1", first_name |-> "Ann", last_name |-> "Lee",
                      birth_date |-> "D1"],
                     [mrn |-> "M1", first_name |-> "Ann", last_name |-> "Ray",
                      birth_date |-> "D2"]},
       staff |-> <<[npi_number |-> "N2", first_name |-> "Canvas", last_name |-> "Bot"]>>] }

\* document_processor.py:49 - "effects: list[Effect] = []" makes a new list
\* object for the call; the mutant hands every call the same list
shared_list(r) == 1

fresh_list(r) == r

\* document_processor.py:51-52
categorize_effects(doc_id, input, pm) ==
    IF input.document_type # NoneRec
    THEN << categorize_effect(doc_id, input.document_type, input.confidence, pm.error) >>
    ELSE <<>>

\* document_processor.py:54-58
prefill_effects(doc_id, input) ==
    IF /\ input.document_type # NoneRec
       /\ input.document_type.template_type # None
       /\ input.prefill # None
    THEN << [kind |-> input.prefill, document_id |-> doc_id,
             subject |-> input.document_type.template_type, annotations |-> <<>>] >>
    ELSE <<>>

\* document_processor.py:60-61
link_effects(doc_id, input, pm) ==
    IF Found(pm.patient)
    THEN << link_patient_effect(doc_id, pm.patient.mrn, input.confidence) >>
    ELSE <<>>

\* document_processor.py:63-67
reviewer_effects(doc_id, input, pm, rm) ==
    IF Found(rm.reviewer)
    THEN << assign_reviewer_effect(doc_id, rm.reviewer.npi_number, rm.auto_assigned,
                                    input.confidence, pm.error) >>
    ELSE <<>>

\* document_processor.py:43-71 - the effects of one run executed alone
compute_effects(doc_id, input, table, rows) ==
    LET pm == find_patient(input.extraction, table).match
        rm == find_reviewer(input.extraction, rows).match
    IN categorize_effects(doc_id, input, pm) \o prefill_effects(doc_id, input)
         \o link_effects(doc_id, input, pm) \o reviewer_effects(doc_id, input, pm, rm)

InitConcurrent ==
    /\ \E s \in DataStores : patients = s.patients /\ staff = s.staff
    /\ runs \in [RunIds -> { [pc |-> "categorized", input |-> i, patient_match |-> NoneRec,
                              reviewer_match |-> NoneRec, list |-> 0, overlap |-> FALSE] :
                             i \in RunInputs }]
    /\ heap = [a \in RunIds |-> <<>>]
    /\ returned = [r \in RunIds |-> NoneRec]
    /\ mpc = "idle" /\ doc_extraction = NoneRec /\ queries = <<>>
    /\ patient_match = NoneRec /\ reviewer_match = NoneRec
    \* the other subsystems stay idle
    /\ clock = 0 /\ reminder_config = NoneRec /\ appointments = {} /\ markers = {} /\ sent_log = <<>> /\ last_run = NoneInt
    /\ field_list = <<>> /\ target_codes = {} /\ built_schema = NoneRec
    /\ pc = "idle" /\ doc = NoneRec /\ secrets = NoneRec /\ attempt = 0
    /\ posts = <<>> /\ sleeps = <<>> /\ response = NoneRec /\ result = NoneRec
    /\ matches = NoneRec /\ effects = <<>> /\ abort = "none"
    /\ xpc = "idle" /\ candidates = <<>> /\ extracted_codes = {} /\ idx = 1
    /\ matched_codes = {} /\ templates = <<>> /\ trace = <<>> /\ api_calls = <<>>
    /\ spc = "idle" /\ store = <<>> /\ call = NoneRec /\ scored = <<>>
    /\ tpc = "idle" /\ raw_value = NoneRec /\ flat = <<>> /\ reflat = <<>> /\ code_call = NoneRec
    /\ kpc = "idle" /\ metadata = NoneRec /\ min_confidence = NoneInt /\ prefill_call = NoneRec
    /\ extraction_raw = NoneRec /\ matched_type = NoneRec /\ raised = "none"

\* another run is between its first step and its return
OtherRunning(r) ==
    \E o \in RunIds \ {r} : runs[o].pc \notin {"categorized", "returned"}

\* run r moves on, with the local values of rec
Advance(r, rec, to) ==
    runs' = [runs EXCEPT ![r] = [rec EXCEPT !.pc = to,
                                            !.overlap = @ \/ OtherRunning(r)]]

Push(r, es) == heap' = [heap EXCEPT ![runs[r].list] = @ \o es]

\* document_processor.py:43
RunFindPatient(r) ==
    /\ runs[r].pc = "categorized"
    /\ Advance(r, [runs[r] EXCEPT !.patient_match =
                       find_patient(runs[r].input.extraction, patients).match], "patient")
    /\ UNCHANGED <<heap, returned>>
    /\ UNCHANGED <<mpc, patients, staff, doc_extraction, queries, patient_match, reviewer_match>>
    /\ UNCHANGED <<runVars, extractVars, scoreVars, codeVars, confVars, payloadVars, schemaVars, remVars>>

\* document_processor.py:44
RunFindReviewer(r) ==
    /\ runs[r].pc = "patient"
    /\ Advance(r, [runs[r] EXCEPT !.reviewer_match =
                       find_reviewer(runs[r].input.extraction, staff).match], "reviewer")
    /\ UNCHANGED <<heap, returned>>
    /\ UNCHANGED <<mpc, patients, staff, doc_extraction, queries, patient_match, reviewer_match>>
    /\ UNCHANGED <<runVars, extractVars, scoreVars, codeVars, confVars, payloadVars, schemaVars, remVars>>

\* document_processor.py:49
RunNewList(r) ==
    /\ runs[r].pc = "reviewer"
    /\ Advance(r, [runs[r] EXCEPT !.list = fresh_list(r)], "list")
    /\ heap' = [heap EXCEPT ![fresh_list(r)] = <<>>]
    /\ UNCHANGED returned
    /\ UNCHANGED <<mpc, patients, staff, doc_extraction, queries, patient_match, reviewer_match>>
    /\ UNCHANGED <<runVars, extractVars, scoreVars, codeVars, confVars, payloadVars, schemaVars, remVars>>

\* document_processor.py:51-52
RunCategorize(r) ==
    /\ runs[r].pc = "list"
    /\ Advance(r, runs[r], "categorize")
    /\ Push(r, categorize_effects(DocumentOf(r), runs[r].input, runs[r].patient_match))
    /\ UNCHANGED returned
    /\ UNCHANGED <<mpc, patients, staff, doc_extraction, queries, patient_match, reviewer_match>>
    /\ UNCHANGED <<runVars, extractVars, scoreVars, codeVars, confVars, payloadVars, schemaVars, remVars>>

\* document_processor.py:54-58
RunPrefill(r) ==
    /\ runs[r].pc = "categorize"
    /\ Advance(r, runs[r], "prefill")
    /\ Push(r, prefill_effects(DocumentOf(r), runs[r].input))
    /\ UNCHANGED returned
    /\ UNCHANGED <<mpc, patients, staff, doc_extraction, queries, patient_match, reviewer_match>>
    /\ UNCHANGED <<runVars, extractVars, scoreVars, codeVars, confVars, payloadVars, schemaVars, remVars>>

\* document_processor.py:60-61
RunLink(r) ==
    /\ runs[r].pc = "prefill"
    /\ Advance(r, runs[r], "link")
    /\ Push(r, link_effects(DocumentOf(r), runs[r].input, runs[r].patient_match))
    /\ UNCHANGED returned
    /\ UNCHANGED <<mpc, patients, staff, doc_extraction, queries, patient_match, reviewer_match>>
    /\ UNCHANGED <<runVars, extractVars, scoreVars, codeVars, confVars, payloadVars, schemaVars, remVars>>

\* document_processor.py:63-67
RunAssign(r) ==
    /\ runs[r].pc = "link"
    /\ Advance(r, runs[r], "assign")
    /\ Push(r, reviewer_effects(DocumentOf(r), runs[r].input, runs[r].patient_match,
                                runs[r].reviewer_match))
    /\ UNCHANGED returned
    /\ UNCHANGED <<mpc, patients, staff, doc_extraction, queries, patient_match, reviewer_match>>
    /\ UNCHANGED <<runVars, extractVars, scoreVars, codeVars, confVars, payloadVars, schemaVars, remVars>>

\* document_processor.py:69-71
RunReturn(r) ==
    /\ runs[r].pc = "assign"
    /\ Advance(r, runs[r], "returned")
    /\ returned' = [returned EXCEPT ![r] = [effects |-> heap[runs[r].list]]]
    /\ UNCHANGED heap
    /\ UNCHANGED <<mpc, patients, staff, doc_extraction, queries, patient_match, reviewer_match>>
    /\ UNCHANGED <<runVars, extractVars, scoreVars, codeVars, confVars, payloadVars, schemaVars, remVars>>

NextConcurrent ==
    \E r \in RunIds :
        \/ RunFindPatient(r)
        \/ RunFindReviewer(r)
        \/ RunNewList(r)
        \/ RunCategorize(r)
        \/ RunPrefill(r)
        \/ RunLink(r)
        \/ RunAssign(r)
        \/ RunReturn(r)

SpecConcurrent == InitConcurrent /\ [][NextConcurrent]_vars

\* C24: under any interleaving of the steps of two runs for different
\* documents, each run returns the effects it returns when executed alone
\* over the same data store (which is what the two runs return one after
\* the other, since no run writes to the store).
C24_RunsIndependent ==
    \A r \in RunIds :
        returned[r] # NoneRec =>
            returned[r].effects =
                compute_effects(DocumentOf(r), runs[r].input, patients, staff)

C24_Witness ==
    /\ \A r \in RunIds : returned[r] # NoneRec /\ runs[r].overlap
    /\ Len(returned[1].effects) = 4
    /\ Len(returned[2].effects) = 1

\* ----------------------------------------------------------------------
\* The order of the list score_templates returns: a table of up to TieRows
\* fields over three templates and three codes, enough for candidates that
\* tie on the score with different numbers of matched codes
\* ----------------------------------------------------------------------
TieRows == 5

TieTemplates == {1, 2, 3}

TieCodes == {1, 2, 3}

AddFieldTie ==
    /\ spc = "store"
    /\ BagSize(store) < TieRows
    /\ \E t \in TieTemplates, c \in TieCodes :
        store' = WithField(store, t, c)
    /\ UNCHANGED <<spc, call, scored>>
    /\ UNCHANGED <<runVars, extractVars, matchVars, codeVars, confVars, payloadVars, concVars, schemaVars, remVars>>

\* a call for a lab document with any code set and keyword list
ScoreLabTemplates ==
    score_templates(CallCodes(store), KeywordLists, {"LabReportTemplate"})

NextScoreTie == AddFieldTie \/ ScoreLabTemplates

SpecScoreTie == InitScore /\ [][NextScoreTie]_vars

\* C25: on the code-match path the returned list is in descending order of
\* (score, number of matched codes): of two consecutive candidates the
\* earlier has the higher score, or the same score and at least as many
\* matched codes.
C25_SortedByScoreThenCodes ==
    CodePath =>
        \A i \in 1..(Len(scored) - 1) :
            \/ ScoreLess(scored[i + 1].score, scored[i].score)
            \/ /\ scored[i].score = scored[i + 1].score
               /\ Cardinality(scored[i].codes) >= Cardinality(scored[i + 1].codes)

\* codes 1 and 2 are shared by templates 1 and 3, code 3 belongs to template
\* 2 alone: all three score 1/2, and template 2, with one code, comes last
C25_Witness ==
    /\ CodePath
    /\ DOMAIN store = { <<1, 1>>, <<1, 2>>, <<3, 1>>, <<3, 2>>, <<2, 3>> }
    /\ BagSize(store) = 5
    /\ Len(scored) = 3
    /\ \A i \in 1..3 : scored[i].score = Frac(1, 2)
    /\ scored[3].id = 2
    /\ scored[3].codes = {3}

\* ======================================================================
\* Schema part: _build_schema over templates with more than MAX_FIELDS
\* fields (extraction.py:78-110)
\* ======================================================================

\* the fields a template has beyond its first MAX_FIELDS - 2
MaxExtra == 3

\* a template field: its code (NoneInt when it has no valid code), its label
\* and its sequence number
TemplateField(code, label, sequence) ==
    [code |-> code, label |-> label, sequence |-> sequence]

\* a template of MAX_FIELDS - 2 fields with the codes 1, 2, ... in sequence
BaseFields ==
    [i \in 1..(MAX_FIELDS - 2) |-> TemplateField(i, "Result", i)]

\* the field a template can have next: one with neither code nor label, one
\* keyed by its label, one repeating code 1, or one with a code of its own
NextFields(sequence) ==
    { TemplateField(NoneInt, None, sequence),
      TemplateField(NoneInt, "Comment", sequence),
      TemplateField(1, "Repeat", sequence),
      TemplateField(200 + sequence, "Result", sequence) }

\* the target code sets: none of the template's codes, its last early code,
\* a late code, or its first code and another late one
TargetCodeSets ==
    { {}, {MAX_FIELDS - 2}, {200 + MAX_FIELDS + 1}, {1, 200 + MAX_FIELDS} }

InitSchema ==
    /\ field_list = BaseFields
    /\ target_codes \in TargetCodeSets
    /\ built_schema = NoneRec
    \* the other subsystems stay idle
    /\ clock = 0 /\ reminder_config = NoneRec /\ appointments = {} /\ markers = {} /\ sent_log = <<>> /\ last_run = NoneInt
    /\ pc = "idle" /\ doc = NoneRec /\ secrets = NoneRec /\ attempt = 0
    /\ posts = <<>> /\ sleeps = <<>> /\ response = NoneRec /\ result = NoneRec
    /\ matches = NoneRec /\ effects = <<>> /\ abort = "none"
    /\ xpc = "idle" /\ candidates = <<>> /\ extracted_codes = {} /\ idx = 1
    /\ matched_codes = {} /\ templates = <<>> /\ trace = <<>> /\ api_calls = <<>>
    /\ spc = "idle" /\ store = <<>> /\ call = NoneRec /\ scored = <<>>
    /\ mpc = "idle" /\ patients = {} /\ staff = <<>> /\ doc_extraction = NoneRec
    /\ queries = <<>> /\ patient_match = NoneRec /\ reviewer_match = NoneRec
    /\ tpc = "idle" /\ raw_value = NoneRec /\ flat = <<>> /\ reflat = <<>> /\ code_call = NoneRec
    /\ kpc = "idle" /\ metadata = NoneRec /\ min_confidence = NoneInt /\ prefill_call = NoneRec
    /\ extraction_raw = NoneRec /\ matched_type = NoneRec /\ raised = "none"
    /\ runs = <<>> /\ heap = <<>> /\ returned = <<>>

\* the template has one more field, at the end of its sequence
AddTemplateField ==
    /\ built_schema = NoneRec
    /\ Len(field_list) < MAX_FIELDS - 2 + MaxExtra
    /\ \E f \in NextFields(Len(field_list) + 1) : field_list' = Append(field_list, f)
    /\ UNCHANGED <<target_codes, built_schema>>
    /\ UNCHANGED <<runVars, extractVars, scoreVars, matchVars, codeVars, confVars, payloadVars, concVars, remVars>>

\* extraction.py:50 - schema, key_map = _build_schema(fields, extracted_codes)
BuildSchema ==
    /\ built_schema = NoneRec
    /\ built_schema' = build_schema(field_list, target_codes)
    /\ UNCHANGED <<field_list, target_codes>>
    /\ UNCHANGED <<runVars, extractVars, scoreVars, matchVars, codeVars, confVars, payloadVars, concVars, remVars>>

NextSchema == AddTemplateField \/ BuildSchema

SpecSchema == InitSchema /\ [][NextSchema]_vars

\* g comes before f in the order "target-coded fields first, then by sequence"
Before(g, f) ==
    \/ (g.code \in target_codes /\ f.code \notin target_codes)
    \/ /\ (g.code \in target_codes) = (f.code \in target_codes)
       /\ g.sequence < f.sequence

\* the fields among the first MAX_FIELDS of that order that have a key
CappedKeyedFields ==
    { f \in Range(field_list) :
        /\ Cardinality({g \in Range(field_list) : Before(g, f)}) < MAX_FIELDS
        /\ field_key(f) # NoKey }

\* of a set of fields, the earliest field of each key
FirstOfKey(fs) ==
    { f \in fs : \A g \in fs : field_key(g) = field_key(f) => ~Before(g, f) }

\* C26: the schema has at most MAX_FIELDS properties; they are the keys of
\* the keyed fields among the first MAX_FIELDS fields in the order "code in
\* the target set first, then template sequence"; key_map has exactly these
\* keys, each mapped to the earliest field of the key in that order, and
\* lists them in that order.
C26_SchemaCapAndOrder ==
    built_schema # NoneRec =>
        \A first \in {FirstOfKey(CappedKeyedFields)} :
            /\ Cardinality(built_schema.properties) <= MAX_FIELDS
            /\ built_schema.properties = {field_key(f) : f \in first}
            /\ Range(built_schema.key_map) = first
            /\ Len(built_schema.key_map) = Cardinality(first)
            /\ \A i \in 1..(Len(built_schema.key_map) - 1) :
                 Before(built_schema.key_map[i], built_schema.key_map[i + 1])

\* MAX_FIELDS + 1 fields with a key each, the last one target-coded: it moves
\* to the front and the field before it falls off the cap
C26_Witness ==
    /\ built_schema # NoneRec
    /\ Len(field_list) = MAX_FIELDS + 1
    /\ target_codes = {200 + MAX_FIELDS + 1}
    /\ \A i \in (MAX_FIELDS - 1)..(MAX_FIELDS + 1) : field_list[i].code = 200 + i
    /\ Cardinality(built_schema.properties) = MAX_FIELDS
    /\ built_schema.key_map[1].code = 200 + MAX_FIELDS + 1
    /\ field_key(field_list[MAX_FIELDS]) \notin built_schema.properties

\* ----------------------------------------------------------------------
\* Further properties of the extraction loop (SpecExtract)
\* ----------------------------------------------------------------------

\* the ids of the candidates whose iteration called the API, in order
CallingIterations ==
    LET called == SelectSeq(trace, LAMBDA e :
                      e.outcome \in {"api_error", "no_prefill", "accepted"})
    IN [k \in 1..Len(called) |-> called[k].id]

\* C27: the loop visits the candidates once, in ranked order; it calls the
\* extraction API at most once per candidate; when the candidates run out it
\* has returned, whether or not the target codes are covered; the templates
\* returned are in candidate order and each has a non-empty fields map.
C27_OnePassInOrder ==
    /\ Len(trace) = idx - 1
    /\ Len(trace) <= Len(candidates)
    /\ \A i \in 1..Len(trace) : trace[i].id = candidates[i].id
    /\ api_calls = CallingIterations
    /\ \A i, j \in 1..Len(api_calls) : i < j => api_calls[i] < api_calls[j]
    /\ Len(trace) = Len(candidates) => xpc = "done"
    /\ \A k \in 1..(Len(templates) - 1) :
         templates[k].template_id < templates[k + 1].template_id
    /\ \A k \in 1..Len(templates) : DOMAIN templates[k].fields # {}

\* the first candidate (0.30, {1}) is accepted, the second (0.04, {2}) is
\* below the gap-fill threshold: the candidates run out with target {1, 2}
\* not covered, and the first template alone is returned
C27_Witness ==
    /\ xpc = "done"
    /\ extracted_codes = {1, 2}
    /\ Len(candidates) = 2
    /\ candidates[1].score = Pct(30) /\ candidates[1].codes = {1}
    /\ candidates[2].score = Pct(4) /\ candidates[2].codes = {2}
    /\ Len(trace) = 2
    /\ trace[1].outcome = "accepted"
    /\ trace[2].outcome = "below_skip"
    /\ Len(templates) = 1
    /\ templates[1].template_id = 1
    /\ api_calls = <<1>>
    /\ matched_codes # extracted_codes

\* extraction.py:28-75 as a function of the candidate list and of what the
\* extraction of each candidate yields: NoneRec when the probe gives no
\* template (no fields, empty schema, API error, no usable value), else
\* [fields |-> the prefill map]
RECURSIVE Replay(_, _, _, _, _)
Replay(cands, probes, k, matched, temps) ==
    IF k > Len(cands) THEN temps
    ELSE LET candidate == cands[k]
             is_gap_fill == Len(temps) > 0
         IN IF Below(candidate.score, Threshold(is_gap_fill))
            THEN IF ~is_gap_fill THEN temps
                 ELSE Replay(cands, probes, k + 1, matched, temps)
            ELSE IF NewCodes(candidate, matched) = {}
            THEN Replay(cands, probes, k + 1, matched, temps)
            ELSE IF probes[k] = NoneRec
            THEN Replay(cands, probes, k + 1, matched, temps)
            ELSE LET temps2 == Append(temps, [template_id |-> candidate.id,
                                              fields |-> probes[k].fields])
                     matched2 == matched \cup candidate.codes
                 IN IF CoverageComplete(matched2, extracted_codes) THEN temps2
                    ELSE Replay(cands, probes, k + 1, matched2, temps2)

\* a sequence without its i-th element
Remove(s, i) == SubSeq(s, 1, i - 1) \o SubSeq(s, i + 1, Len(s))

\* the prefill map a candidate the run never probed would yield if probed
SomeFields ==
    [k \in {[code |-> 1, label |-> None]} |-> [value |-> "7.2", annotations |-> <<>>]]

\* what the probes of the candidates yield: as observed for the candidates
\* the run probed, anything for the others
ProbeOutcomes ==
    LET unprobed == {i \in 1..Len(candidates) : ~(i <= Len(trace) /\ Probed(i))}
        observed(i) == IF trace[i].outcome = "accepted"
                       THEN [fields |-> templates[trace[i].accepted].fields]
                       ELSE NoneRec
    IN { [i \in 1..Len(candidates) |->
            IF i \in unprobed
            THEN IF i \in yielding THEN [fields |-> SomeFields] ELSE NoneRec
            ELSE observed(i)] : yielding \in SUBSET unprobed }

RejectedProbe(i) ==
    trace[i].outcome \in {"no_fields", "empty_schema", "api_error", "no_prefill"}

\* C29: a candidate that is probed but not accepted leaves matched_codes and
\* templates as they were, and the templates returned equal those returned
\* for the candidate list without that candidate (every other candidate
\* yielding what it yields in this run).
C29_RejectedProbeIsNoOp ==
    /\ \A i \in 1..Len(trace) :
         RejectedProbe(i) =>
            /\ trace[i].covered = CoveredBefore(i)
            /\ trace[i].accepted = (IF i = 1 THEN 0 ELSE trace[i - 1].accepted)
    /\ xpc = "done" =>
         \A probes \in ProbeOutcomes :
            /\ templates = Replay(candidates, probes, 1, {}, <<>>)
            /\ \A i \in 1..Len(trace) :
                 RejectedProbe(i) =>
                    templates = Replay(Remove(candidates, i), Remove(probes, i),
                                       1, {}, <<>>)

\* the first candidate's extraction call failed, the second was accepted
C29_Witness ==
    /\ xpc = "done"
    /\ Len(trace) >= 2
    /\ trace[1].outcome = "api_error"
    /\ trace[2].outcome = "accepted"
    /\ Len(templates) = 1
    /\ templates[1].template_id = 2

\* main.py:63-74 - what prefill_document_fields returns for the templates
prefill_return(ts) == IF ts = <<>> THEN None ELSE "PrefillDocumentFields"

\* the candidates are those of the keyword fallback
FromFallback ==
    \A i \in 1..Len(candidates) :
        candidates[i].score = Pct(10) /\ candidates[i].codes = {}

\* C30: candidates of the keyword fallback (score 0.1, no codes) never lead
\* to an extraction call or a template: the first of them is below the
\* primary threshold and ends the loop, extract_fields_for_templates returns
\* an empty list and prefill_document_fields returns None.
C30_FallbackNeverPrefills ==
    FromFallback =>
        /\ api_calls = <<>>
        /\ templates = <<>>
        /\ \A i \in 1..Len(trace) :
             i = 1 /\ trace[i].outcome = "below_break" /\ xpc = "done"
        /\ xpc = "done" => prefill_return(templates) = None

C30_Witness ==
    /\ FromFallback
    /\ Len(candidates) = 3
    /\ xpc = "done"
    /\ Len(trace) = 1
    /\ trace[1].outcome = "below_break"
    /\ templates = <<>>

\* ======================================================================
\* custom_reminders/handlers/reminder_scheduler.py - ReminderScheduler
\* ======================================================================

\* the number of quarter-hour steps the clock takes within a week
MaxTicks == 6

\* the appointments: one in an hour, one in a week and an hour
AppointmentRows ==
    { [id |-> 1, start_time |-> 60], [id |-> 2, start_time |-> 7 * 24 * 60 + 60] }

\* the reminder intervals of a configuration, in minutes
IntervalLists == { <<60, 30>>, <<30, 30>>, <<7 * 24 * 60, 30>> }

\* reminder_scheduler.py:34-37 - the appointments starting within 7 days of now
upcoming(now) ==
    {a \in appointments : a.start_time >= now /\ a.start_time <= now + 7 * 24 * 60}

\* reminder_scheduler.py:43-44
minutes_until(a, now) == a.start_time - now

\* reminder_scheduler.py:50
in_reminder_window(a, interval, now) ==
    LET d == minutes_until(a, now) - interval
    IN (IF d < 0 THEN 0 - d ELSE d) <= 15

\* reminder_scheduler.py:52 - f"cr:reminder_sent:{appointment.id}:{interval_minutes}"
cache_key(a, interval) == <<a.id, interval>>

\* reminder_scheduler.py:53-55 - cache.get(cache_key): the marker, while it
\* has not expired; the mutant never finds one
AlreadySentNever(cache, key, now) == FALSE

AlreadySent(cache, key, now) ==
    \E m \in cache : m.key = key /\ now < m.expires

\* reminder_scheduler.py:71 - cache.set(cache_key, "1", timeout_seconds=604800)
cache_set(cache, key, now) ==
    {m \in cache : m.key # key} \cup {[key |-> key, expires |-> now + 604800 \div 60]}

\* reminder_scheduler.py:41-47 - the (appointment, interval) pairs in the
\* order the two loops visit them
RECURSIVE loop_pairs(_, _)
loop_pairs(as, intervals) ==
    IF as = {} THEN <<>>
    ELSE LET a == CHOOSE x \in as : \A y \in as : x.id <= y.id
         IN [k \in 1..Len(intervals) |-> [appointment |-> a, interval |-> intervals[k]]]
              \o loop_pairs(as \ {a}, intervals)

\* reminder_scheduler.py:47-73 - the body of the loops over the pairs: the
\* cache and the reminders sent after the pairs ps
RECURSIVE send_reminders(_, _, _, _)
send_reminders(ps, cache, log, now) ==
    IF ps = <<>> THEN [markers |-> cache, sent_log |-> log]
    ELSE LET a == Head(ps).appointment
             interval == Head(ps).interval
             key == cache_key(a, interval)
         IN IF in_reminder_window(a, interval, now) /\ ~AlreadySent(cache, key, now)
            THEN send_reminders(Tail(ps), cache_set(cache, key, now),
                     Append(log, [appointment |-> a.id, interval |-> interval,
                                  at |-> now, minutes_until |-> minutes_until(a, now),
                                  enabled |-> reminder_config.reminders_enabled]),
                     now)
            ELSE send_reminders(Tail(ps), cache, log, now)

InitReminder ==
    /\ clock \in {0, 5}
    /\ reminder_config \in [reminders_enabled : BOOLEAN, reminder_intervals : IntervalLists]
    /\ appointments = AppointmentRows
    /\ markers = {}
    /\ sent_log = <<>>
    /\ last_run = NoneInt
    \* the other subsystems stay idle
    /\ pc = "idle" /\ doc = NoneRec /\ secrets = NoneRec /\ attempt = 0
    /\ posts = <<>> /\ sleeps = <<>> /\ response = NoneRec /\ result = NoneRec
    /\ matches = NoneRec /\ effects = <<>> /\ abort = "none"
    /\ xpc = "idle" /\ candidates = <<>> /\ extracted_codes = {} /\ idx = 1
    /\ matched_codes = {} /\ templates = <<>> /\ trace = <<>> /\ api_calls = <<>>
    /\ spc = "idle" /\ store = <<>> /\ call = NoneRec /\ scored = <<>>
    /\ mpc = "idle" /\ patients = {} /\ staff = <<>> /\ doc_extraction = NoneRec
    /\ queries = <<>> /\ patient_match = NoneRec /\ reviewer_match = NoneRec
    /\ tpc = "idle" /\ raw_value = NoneRec /\ flat = <<>> /\ reflat = <<>> /\ code_call = NoneRec
    /\ kpc = "idle" /\ metadata = NoneRec /\ min_confidence = NoneInt /\ prefill_call = NoneRec
    /\ extraction_raw = NoneRec /\ matched_type = NoneRec /\ raised = "none"
    /\ runs = <<>> /\ heap = <<>> /\ returned = <<>>
    /\ field_list = <<>> /\ target_codes = {} /\ built_schema = NoneRec

\* a quarter of an hour passes
Tick ==
    /\ clock % (7 * 24 * 60) < 15 * MaxTicks
    /\ clock' = clock + 15
    /\ UNCHANGED <<reminder_config, appointments, markers, sent_log, last_run>>
    /\ UNCHANGED <<runVars, extractVars, scoreVars, matchVars, codeVars, confVars, payloadVars, concVars, schemaVars>>

\* a week passes
PassWeek ==
    /\ clock < 7 * 24 * 60
    /\ clock' = clock + 7 * 24 * 60
    /\ UNCHANGED <<reminder_config, appointments, markers, sent_log, last_run>>
    /\ UNCHANGED <<runVars, extractVars, scoreVars, matchVars, codeVars, confVars, payloadVars, concVars, schemaVars>>

\* reminder_api.py - the administrator switches the reminders on or off
SetRemindersEnabled ==
    /\ reminder_config' = [reminder_config EXCEPT !.reminders_enabled = ~@]
    /\ UNCHANGED <<clock, appointments, markers, sent_log, last_run>>
    /\ UNCHANGED <<runVars, extractVars, scoreVars, matchVars, codeVars, confVars, payloadVars, concVars, schemaVars>>

\* reminder_scheduler.py:19-76 - one run of execute
Execute ==
    /\ IF ~reminder_config.reminders_enabled
       THEN UNCHANGED <<markers, sent_log>>
       ELSE LET r == send_reminders(
                        loop_pairs(upcoming(clock), reminder_config.reminder_intervals),
                        markers, sent_log, clock)
            IN /\ markers' = r.markers
               /\ sent_log' = r.sent_log
    /\ last_run' = clock
    /\ UNCHANGED <<clock, reminder_config, appointments>>
    /\ UNCHANGED <<runVars, extractVars, scoreVars, matchVars, codeVars, confVars, payloadVars, concVars, schemaVars>>

NextReminder == Tick \/ PassWeek \/ SetRemindersEnabled \/ Execute

SpecReminder == InitReminder /\ [][NextReminder]_vars

\* the marker of a reminder sent at time t is live before t + 7 days
MarkerLive(e, now) == now < e.at + 7 * 24 * 60

\* C28: a reminder for an (appointment, interval) pair is not sent again
\* while the marker of an earlier sending is live; every reminder was sent
\* by a run with reminders enabled, at a time when the minutes until the
\* appointment were within 15 of the interval; and the marker of the pair
\* was set by the sending run and stays in the cache while it is live.
C28_AtMostOncePerMarker ==
    /\ \A i, j \in 1..Len(sent_log) :
         (/\ i < j
          /\ sent_log[i].appointment = sent_log[j].appointment
          /\ sent_log[i].interval = sent_log[j].interval)
            => ~MarkerLive(sent_log[i], sent_log[j].at)
    /\ \A i \in 1..Len(sent_log) :
         LET e == sent_log[i]
             d == e.minutes_until - e.interval
         IN /\ e.enabled
            /\ -15 <= d /\ d <= 15
            /\ \E m \in markers : /\ m.key = <<e.appointment, e.interval>>
                                  /\ m.expires >= e.at + 7 * 24 * 60

\* the 60-minute reminder of appointment 1 went out at minute 0; the run at
\* minute 15 found the pair in its window again and its marker live, and
\* sent only the 30-minute reminder
C28_Witness ==
    /\ last_run = 15
    /\ reminder_config.reminder_intervals = <<60, 30>>
    /\ Len(sent_log) = 2
    /\ sent_log[1] = [appointment |-> 1, interval |-> 60, at |-> 0,
                      minutes_until |-> 60, enabled |-> TRUE]
    /\ sent_log[2].interval = 30
    /\ sent_log[2].at = 15

====
